---------------------------- MODULE Spec2Model ----------------------------
(***************************************************************************)
(* Model of the HackForge mental-health chatbot backend:                   *)
(*   - services/moodDetection.py        (keyword / sentiment mood detection)*)
(*   - mcp_llm.py                       (risk predictor, crisis manager,    *)
(*                                       chat tools over SQLite)            *)
(*   - microservices/offlineCacheService.py and routes/respond.py          *)
(*                                      (per-user JSON files, sessions)     *)
(*   - routes/mcp.py                    (MentalHealthMCP)                   *)
(*                                                                         *)
(* Text is a sequence of one-character strings, so that Python's           *)
(* substring test `kw in txt`, str.lower(), str.strip() and str.split()    *)
(* are computed and not assumed.  Real numbers are scaled integers:        *)
(* pattern weights in tenths, risk probabilities in hundredths, the final  *)
(* crisis score in thousandths.                                            *)
(***************************************************************************)
EXTENDS Integers, Sequences, FiniteSets, TLC

(***************************************************************************)
(* Python values                                                           *)
(***************************************************************************)
\* Optional[T]: None is the empty tuple, a value x is the 1-tuple <<x>>.
None ==
  << >>

Some(x) ==
  << x >>

IsNone(o) ==
  o = << >>

Val(o) ==
  o[1]

Min(a, b) ==
  IF a <= b THEN a ELSE b

Max(a, b) ==
  IF a >= b THEN a ELSE b

(***************************************************************************)
(* Strings                                                                 *)
(***************************************************************************)
UPPERCASE ==
  <<"A","B","C","D","E","F","G","H","I","J","K","L","M",
    "N","O","P","Q","R","S","T","U","V","W","X","Y","Z">>

LOWERCASE ==
  <<"a","b","c","d","e","f","g","h","i","j","k","l","m",
    "n","o","p","q","r","s","t","u","v","w","x","y","z">>

\* str.lower() on one character
LowerChar(c) ==
  IF \E i \in 1..26 : UPPERCASE[i] = c
  THEN LOWERCASE[CHOOSE i \in 1..26 : UPPERCASE[i] = c]
  ELSE c

\* str.lower()
RECURSIVE lower(_)
lower(txt) ==
  IF txt = << >> THEN << >> ELSE << LowerChar(Head(txt)) >> \o lower(Tail(txt))

\* Python `kw in txt` on strings: kw occurs as a contiguous substring
Contains(kw, txt) ==
  \E i \in 1..(Len(txt) - Len(kw) + 1) : \A j \in 1..Len(kw) : txt[i + j - 1] = kw[j]

IsSpace(c) ==
  c = " "

\* str.strip(): drop leading and trailing whitespace
strip(txt) ==
  LET nonsp == {i \in 1..Len(txt) : ~IsSpace(txt[i])}
  IN  IF nonsp = {} THEN << >>
      ELSE LET first == CHOOSE i \in nonsp : \A j \in nonsp : i <= j
               last  == CHOOSE i \in nonsp : \A j \in nonsp : i >= j
           IN  SubSeq(txt, first, last)

RECURSIVE SplitRec(_, _, _)
SplitRec(txt, i, cur) ==
  IF i > Len(txt)
  THEN (IF cur = << >> THEN << >> ELSE << cur >>)
  ELSE IF IsSpace(txt[i])
       THEN (IF cur = << >> THEN << >> ELSE << cur >>) \o SplitRec(txt, i + 1, << >>)
       ELSE SplitRec(txt, i + 1, Append(cur, txt[i]))

\* str.split(): the maximal runs of non-whitespace characters
split(txt) ==
  SplitRec(txt, 1, << >>)

\* `x in lst` for a Python list
InList(x, lst) ==
  \E i \in 1..Len(lst) : lst[i] = x

\* sum(1 for x in xs if x in lst)
CountIn(xs, lst) ==
  Cardinality({i \in 1..Len(xs) : InList(xs[i], lst)})

(***************************************************************************)
(* Keyword tables                                                          *)
(***************************************************************************)
\* mcp_llm.py CRISIS_PATTERNS['immediate_danger']['keywords']
KW_immediate_danger ==
  <<
    <<"k","i","l","l"," ","m","y","s","e","l","f">>,
    <<"e","n","d"," ","m","y"," ","l","i","f","e">>,
    <<"s","u","i","c","i","d","e">>,
    <<"w","a","n","t"," ","t","o"," ","d","i","e">>,
    <<"g","o","i","n","g"," ","t","o"," ","h","u","r","t"," ","m","y","s","e","l","f">> >>

\* mcp_llm.py CRISIS_PATTERNS['self_harm']['keywords']
KW_self_harm ==
  <<
    <<"c","u","t"," ","m","y","s","e","l","f">>,
    <<"h","u","r","t"," ","m","y","s","e","l","f">>,
    <<"s","e","l","f"," ","h","a","r","m">>,
    <<"r","a","z","o","r">>,
    <<"p","i","l","l","s">> >>

\* mcp_llm.py CRISIS_PATTERNS['despair']['keywords']
KW_despair ==
  <<
    <<"h","o","p","e","l","e","s","s">>,
    <<"n","o"," ","p","o","i","n","t">>,
    <<"g","i","v","e"," ","u","p">>,
    <<"c","a","n","t"," ","g","o"," ","o","n">>,
    <<"w","o","r","t","h","l","e","s","s">> >>

\* mcp_llm.py CRISIS_PATTERNS['planning']['keywords']
KW_planning ==
  <<
    <<"p","l","a","n"," ","t","o">>,
    <<"g","o","i","n","g"," ","t","o">>,
    <<"t","o","n","i","g","h","t">>,
    <<"t","o","m","o","r","r","o","w">>,
    <<"m","e","t","h","o","d">> >>

\* services/moodDetection.py CRISIS_KEYWORDS
CRISIS_KEYWORDS ==
  <<
    <<"s","u","i","c","i","d","e">>,
    <<"k","i","l","l"," ","m","y","s","e","l","f">>,
    <<"e","n","d"," ","m","y"," ","l","i","f","e">>,
    <<"c","a","n","t"," ","g","o"," ","o","n">>,
    <<"c","a","n","'","t"," ","g","o"," ","o","n">>,
    <<"w","a","n","t"," ","t","o"," ","d","i","e">>,
    <<"i"," ","w","i","l","l"," ","d","i","e">>,
    <<"h","u","r","t"," ","m","y","s","e","l","f">>,
    <<"s","e","l","f"," ","h","a","r","m">>,
    <<"s","e","l","f","-","h","a","r","m">> >>

\* routes/mcp.py MentalHealthMCP.CRISIS_KEYWORDS
MCP_CRISIS_KEYWORDS ==
  <<
    <<"s","u","i","c","i","d","e">>,
    <<"k","i","l","l"," ","m","y","s","e","l","f">>,
    <<"e","n","d"," ","m","y"," ","l","i","f","e">>,
    <<"c","a","n","t"," ","g","o"," ","o","n">>,
    <<"c","a","n","'","t"," ","g","o"," ","o","n">>,
    <<"w","a","n","t"," ","t","o"," ","d","i","e">>,
    <<"i"," ","w","i","l","l"," ","d","i","e">>,
    <<"h","u","r","t"," ","m","y","s","e","l","f">>,
    <<"s","e","l","f"," ","h","a","r","m">>,
    <<"s","e","l","f","-","h","a","r","m">>,
    <<"n","o"," ","p","o","i","n","t"," ","l","i","v","i","n","g">>,
    <<"b","e","t","t","e","r"," ","o","f","f"," ","d","e","a","d">>,
    <<"e","n","d","i","n","g"," ","i","t"," ","a","l","l">> >>

\* services/moodDetection.py EMOTION_KEYWORDS['sad']
EK_sad ==
  <<
    <<"s","a","d">>,
    <<"d","e","p","r","e","s","s","e","d">>,
    <<"l","o","n","e","l","y">>,
    <<"h","o","p","e","l","e","s","s">>,
    <<"d","o","w","n">>,
    <<"u","n","h","a","p","p","y">>,
    <<"t","e","a","r">>,
    <<"c","r","y">> >>

\* services/moodDetection.py EMOTION_KEYWORDS['anxious']
EK_anxious ==
  <<
    <<"a","n","x","i","o","u","s">>,
    <<"n","e","r","v","o","u","s">>,
    <<"w","o","r","r","i","e","d">>,
    <<"p","a","n","i","c">>,
    <<"p","a","n","i","c"," ","a","t","t","a","c","k">>,
    <<"s","t","r","e","s","s","e","d">>,
    <<"s","t","r","e","s","s">> >>

\* services/moodDetection.py EMOTION_KEYWORDS['angry']
EK_angry ==
  <<
    <<"a","n","g","r","y">>,
    <<"m","a","d">>,
    <<"f","u","r","i","o","u","s">>,
    <<"a","n","n","o","y","e","d">>,
    <<"i","r","r","i","t","a","t","e","d">>,
    <<"h","a","t","e">> >>

\* services/moodDetection.py EMOTION_KEYWORDS['happy']
EK_happy ==
  <<
    <<"h","a","p","p","y">>,
    <<"g","r","e","a","t">>,
    <<"g","o","o","d">>,
    <<"g","l","a","d">>,
    <<"a","w","e","s","o","m","e">>,
    <<"f","i","n","e">>,
    <<"j","o","y">>,
    <<"e","x","c","i","t","e","d">> >>

\* routes/mcp.py MentalHealthMCP.EMOTION_KEYWORDS['sad']
MCP_EK_sad ==
  <<
    <<"s","a","d">>,
    <<"d","e","p","r","e","s","s","e","d">>,
    <<"l","o","n","e","l","y">>,
    <<"h","o","p","e","l","e","s","s">>,
    <<"d","o","w","n">>,
    <<"u","n","h","a","p","p","y">>,
    <<"t","e","a","r">>,
    <<"c","r","y">>,
    <<"m","i","s","e","r","a","b","l","e">> >>

\* routes/mcp.py MentalHealthMCP.EMOTION_KEYWORDS['anxious']
MCP_EK_anxious ==
  <<
    <<"a","n","x","i","o","u","s">>,
    <<"n","e","r","v","o","u","s">>,
    <<"w","o","r","r","i","e","d">>,
    <<"p","a","n","i","c">>,
    <<"p","a","n","i","c"," ","a","t","t","a","c","k">>,
    <<"s","t","r","e","s","s","e","d">>,
    <<"s","t","r","e","s","s">>,
    <<"o","v","e","r","w","h","e","l","m","e","d">> >>

\* routes/mcp.py MentalHealthMCP.EMOTION_KEYWORDS['angry']
MCP_EK_angry ==
  <<
    <<"a","n","g","r","y">>,
    <<"m","a","d">>,
    <<"f","u","r","i","o","u","s">>,
    <<"a","n","n","o","y","e","d">>,
    <<"i","r","r","i","t","a","t","e","d">>,
    <<"h","a","t","e">>,
    <<"r","a","g","e">>,
    <<"o","u","t","r","a","g","e","d">> >>

\* routes/mcp.py MentalHealthMCP.EMOTION_KEYWORDS['happy']
MCP_EK_happy ==
  <<
    <<"h","a","p","p","y">>,
    <<"g","r","e","a","t">>,
    <<"g","o","o","d">>,
    <<"g","l","a","d">>,
    <<"a","w","e","s","o","m","e">>,
    <<"f","i","n","e">>,
    <<"j","o","y">>,
    <<"e","x","c","i","t","e","d">>,
    <<"w","o","n","d","e","r","f","u","l">> >>

positive_words ==
  <<
    <<"g","o","o","d">>,
    <<"g","r","e","a","t">>,
    <<"a","w","e","s","o","m","e">>,
    <<"h","a","p","p","y">>,
    <<"l","o","v","e">>,
    <<"a","m","a","z","i","n","g">>,
    <<"w","o","n","d","e","r","f","u","l">>,
    <<"e","x","c","e","l","l","e","n","t">>,
    <<"f","a","n","t","a","s","t","i","c">>,
    <<"p","e","r","f","e","c","t">> >>

negative_words ==
  <<
    <<"b","a","d">>,
    <<"t","e","r","r","i","b","l","e">>,
    <<"a","w","f","u","l">>,
    <<"h","a","t","e">>,
    <<"h","o","r","r","i","b","l","e">>,
    <<"d","i","s","g","u","s","t","i","n","g">>,
    <<"w","o","r","s","t">>,
    <<"s","t","u","p","i","d">>,
    <<"u","g","l","y">>,
    <<"a","n","n","o","y","i","n","g">> >>

\* mcp_llm.py basic_mood_detection emotion_patterns['sad']
EP_sad ==
  <<
    <<"s","a","d">>,
    <<"d","e","p","r","e","s","s","e","d">>,
    <<"d","o","w","n">>,
    <<"m","i","s","e","r","a","b","l","e">>,
    <<"h","e","a","r","t","b","r","o","k","e","n">> >>

\* mcp_llm.py basic_mood_detection emotion_patterns['anxious']
EP_anxious ==
  <<
    <<"a","n","x","i","o","u","s">>,
    <<"n","e","r","v","o","u","s">>,
    <<"w","o","r","r","i","e","d">>,
    <<"p","a","n","i","c">>,
    <<"s","t","r","e","s","s">> >>

\* mcp_llm.py basic_mood_detection emotion_patterns['angry']
EP_angry ==
  <<
    <<"a","n","g","r","y">>,
    <<"m","a","d">>,
    <<"f","u","r","i","o","u","s">>,
    <<"r","a","g","e">>,
    <<"i","r","r","i","t","a","t","e","d">> >>

\* mcp_llm.py basic_mood_detection emotion_patterns['happy']
EP_happy ==
  <<
    <<"h","a","p","p","y">>,
    <<"j","o","y">>,
    <<"e","x","c","i","t","e","d">>,
    <<"g","r","e","a","t">>,
    <<"w","o","n","d","e","r","f","u","l">> >>

\* mcp_llm.py basic_mood_detection emotion_patterns['tired']
EP_tired ==
  <<
    <<"t","i","r","e","d">>,
    <<"e","x","h","a","u","s","t","e","d">>,
    <<"d","r","a","i","n","e","d">>,
    <<"w","e","a","r","y">>,
    <<"f","a","t","i","g","u","e">> >>

\* mcp_llm.py basic_mood_detection emotion_patterns['confused']
EP_confused ==
  <<
    <<"c","o","n","f","u","s","e","d">>,
    <<"l","o","s","t">>,
    <<"u","n","c","e","r","t","a","i","n">>,
    <<"u","n","c","l","e","a","r">> >>

\* the messages users send in the model (as typed, before any normalisation)
Corpus ==
  <<
    <<"I"," ","w","a","n","t"," ","t","o"," ","K","I","L","L"," ","m","y","s","e","l","f">>,
    <<"i"," ","f","e","e","l"," ","s","a","d"," ","a","n","d"," ","h","o","p","e","l","e","s","s">>,
    <<"s","o"," ","h","a","p","p","y"," ","t","o","d","a","y">>,
    <<"i"," ","h","a","t","e"," ","t","h","i","s">>,
    <<"g","o","i","n","g"," ","t","o"," ","t","a","k","e"," ","p","i","l","l","s"," ","t","o","n","i","g","h","t">>,
    <<"h","e","l","l","o"," ","t","h","e","r","e">>,
    <<>>,
    <<" "," "," ">>,
    <<"n","o"," ","p","o","i","n","t",","," ","i"," ","g","i","v","e"," ","u","p"," ","t","o","m","o","r","r","o","w">>,
    <<"s","a","d"," ","b","u","t"," ","c","a","n","t"," ","g","o"," ","o","n">>,
    <<"w","o","r","r","i","e","d"," ","a","n","d"," ","s","t","r","e","s","s","e","d">>,
    <<"s","u","i","c","i","d","e"," ","i","s"," ","s","a","d">>,
    <<"b","a","d"," ","a","w","f","u","l"," ","d","a","y">>,
    <<"l","o","v","e"," ","a","m","a","z","i","n","g"," ","p","e","r","f","e","c","t">>,
    <<"b","e","t","t","e","r"," ","o","f","f"," ","d","e","a","d">>,
    <<" ","H","u","r","t"," ","M","y","s","e","l","f"," ">>,
    <<"h","a","p","p","y"," ","b","u","t"," ","w","o","r","r","i","e","d">> >>

(***************************************************************************)
(* services/moodDetection.py and MentalHealthMCP (routes/mcp.py):          *)
(* offline mood detection                                                  *)
(***************************************************************************)
\* EMOTION_KEYWORDS.items() in dict order: sad, anxious, angry, happy
EMOTION_KEYWORDS ==
  << [mood |-> "sad",     keys |-> EK_sad],
     [mood |-> "anxious", keys |-> EK_anxious],
     [mood |-> "angry",   keys |-> EK_angry],
     [mood |-> "happy",   keys |-> EK_happy] >>

MCP_EMOTION_KEYWORDS ==
  << [mood |-> "sad",     keys |-> MCP_EK_sad],
     [mood |-> "anxious", keys |-> MCP_EK_anxious],
     [mood |-> "angry",   keys |-> MCP_EK_angry],
     [mood |-> "happy",   keys |-> MCP_EK_happy] >>

\* any(k in text for k in keywords)
includes_any(text, keywords) ==
  \E i \in 1..Len(keywords) : Contains(keywords[i], text)

\* the score without the limits of min and max
simple_sentiment_score_unlimited(text) ==
  LET words == split(lower(text))
      positive_count == CountIn(words, positive_words)
      negative_count == CountIn(words, negative_words)
  IN  IF positive_count > negative_count THEN positive_count * 2
      ELSE IF negative_count > positive_count THEN -(negative_count * 2)
      ELSE 0

\* _simple_sentiment_score(text), the same statements in moodDetection.py and
\* in MentalHealthMCP
simple_sentiment_score(text) ==
  LET words == split(lower(text))
      positive_count == CountIn(words, positive_words)
      negative_count == CountIn(words, negative_words)
  IN  IF positive_count > negative_count THEN Min(5, positive_count * 2)
      ELSE IF negative_count > positive_count THEN Max(-5, -(negative_count * 2))
      ELSE 0

\* steps 2-4 with the sentiment thresholds tried before the emotion keywords
MoodFromScoreOrKeywords(txt, score, emotion_keywords) ==
  LET hits == {i \in 1..Len(emotion_keywords) : includes_any(txt, emotion_keywords[i].keys)}
  IN  IF score <= -3 THEN [mood |-> "sad", score |-> Some(score)]
      ELSE IF score <= -1 THEN [mood |-> "anxious", score |-> Some(score)]
      ELSE IF score >= 3 THEN [mood |-> "happy", score |-> Some(score)]
      ELSE IF hits # {}
      THEN [mood  |-> emotion_keywords[CHOOSE i \in hits : \A j \in hits : i <= j].mood,
            score |-> Some(score)]
      ELSE [mood |-> "neutral", score |-> Some(score)]

\* steps 2-4 of detectMoodOffline, after the crisis test has failed
MoodFromKeywordsOrScore(txt, score, emotion_keywords) ==
  LET hits == {i \in 1..Len(emotion_keywords) : includes_any(txt, emotion_keywords[i].keys)}
  IN  IF hits # {}
      THEN [mood  |-> emotion_keywords[CHOOSE i \in hits : \A j \in hits : i <= j].mood,
            score |-> Some(score)]
      ELSE IF score <= -3 THEN [mood |-> "sad", score |-> Some(score)]
      ELSE IF score <= -1 THEN [mood |-> "anxious", score |-> Some(score)]
      ELSE IF score >= 3 THEN [mood |-> "happy", score |-> Some(score)]
      ELSE [mood |-> "neutral", score |-> Some(score)]

\* the mood detector with the crisis test moved behind the emotion keywords
DetectMoodEmotionFirst(message, has_vader, vader, crisis_keywords, emotion_keywords) ==
  IF IsNone(message) \/ Val(message) = << >>
  THEN [mood |-> "neutral", score |-> Some(0)]
  ELSE LET txt == lower(Val(message))
           score == IF has_vader THEN vader ELSE simple_sentiment_score(txt)
           r == MoodFromKeywordsOrScore(txt, score, emotion_keywords)
       IN  IF \E i \in 1..Len(emotion_keywords) : includes_any(txt, emotion_keywords[i].keys)
           THEN r
           ELSE IF includes_any(txt, crisis_keywords)
                THEN [mood |-> "crisis", score |-> None]
                ELSE r

\* message: Optional text; vader: int(compound * 5) as VADER would give it
\* (an input: the sentiment library is outside the repository)
DetectMood(message, has_vader, vader, crisis_keywords, emotion_keywords) ==
  IF IsNone(message) \/ Val(message) = << >>
  THEN [mood |-> "neutral", score |-> Some(0)]
  ELSE LET txt == lower(Val(message))
       IN  IF includes_any(txt, crisis_keywords)
           THEN [mood |-> "crisis", score |-> None]
           ELSE LET score == IF has_vader THEN vader ELSE simple_sentiment_score(txt)
                IN  MoodFromKeywordsOrScore(txt, score, emotion_keywords)

\* services/moodDetection.py
detectMoodOffline(message, has_vader, vader) ==
  DetectMood(message, has_vader, vader, CRISIS_KEYWORDS, EMOTION_KEYWORDS)

\* routes/mcp.py MentalHealthMCP.detect_mood_offline
detect_mood_offline(message, has_vader, vader) ==
  DetectMood(message, has_vader, vader, MCP_CRISIS_KEYWORDS, MCP_EMOTION_KEYWORDS)

(***************************************************************************)
(* mcp_llm.py: risk predictor and crisis manager                           *)
(***************************************************************************)
\* CRISIS_PATTERNS.items() in dict order; weight in tenths
CRISIS_PATTERNS ==
  << [name |-> "immediate_danger", keywords |-> KW_immediate_danger, weight |-> 10],
     [name |-> "self_harm",        keywords |-> KW_self_harm,        weight |-> 9],
     [name |-> "despair",          keywords |-> KW_despair,          weight |-> 7],
     [name |-> "planning",         keywords |-> KW_planning,         weight |-> 8] >>

RECURSIVE SumSeq(_)
SumSeq(s) ==
  IF s = << >> THEN 0 ELSE Head(s) + SumSeq(Tail(s))

Reverse(s) ==
  [i \in 1..Len(s) |-> s[Len(s) + 1 - i]]

\* the first n elements, s[:n]
Take(s, n) ==
  SubSeq(s, 1, Min(n, Len(s)))

\* the last n elements as Python computes s[-n:]; s[-0:] is the whole list
LastN(s, n) ==
  IF n = 0 THEN s ELSE SubSeq(s, Max(1, Len(s) - n + 1), Len(s))

\* A datetime: aware (carries a UTC offset) or naive, and a day number.
\* SQLite's CURRENT_TIMESTAMP is 'YYYY-MM-DD HH:MM:SS': fromisoformat gives a
\* naive datetime; datetime.now(timezone.utc) is aware.
SqlTimestamp(day) ==
  [aware |-> FALSE, day |-> day]

\* datetime.now(timezone.utc) shifted by a number of days
NowUtc(day) ==
  [aware |-> TRUE, day |-> day]

\* a > b on datetimes: Python raises TypeError when exactly one is aware
DatetimeGreater(a, b) ==
  IF a.aware # b.aware THEN "TypeError"
  ELSE IF a.day > b.day THEN "True" ELSE "False"

\* mood_scores.get(m, 0.5) in hundredths
MoodScore(m) ==
  CASE m = Some("happy")   -> 100
    [] m = Some("neutral") -> 50
    [] m = Some("sad")     -> 20
    [] m = Some("anxious") -> 30
    [] m = Some("angry")   -> 10
    [] OTHER               -> 50

\* number of CRISIS_PATTERNS keywords contained in a lowercased message
CrisisKeywordCount(message_lower) ==
  SumSeq([p \in 1..Len(CRISIS_PATTERNS) |->
            Cardinality({k \in 1..Len(CRISIS_PATTERNS[p].keywords) :
                           Contains(CRISIS_PATTERNS[p].keywords[k], message_lower)})])

FeaturesError(e) ==
  [err |-> e, features |-> << >>]

\* RiskPredictor.extract_features; rows: the user's interactions in insertion
\* order; numpy: `import numpy as np` succeeded.  Days are counted from the
\* day of the call (day 0), so week_ago is day -7.
\* Features are in hundredths.
extract_features(rows, numpy) ==
  LET interactions == Take(Reverse(rows), 20)
      n == Len(interactions)
      recent_scores == SelectSeq([i \in 1..n |-> interactions[i].risk_score],
                                 LAMBDA r : ~IsNone(r))
      avg == IF recent_scores = << >> THEN 50
             ELSE SumSeq([i \in 1..Len(recent_scores) |-> Val(recent_scores[i])])
                  \div Len(recent_scores)
      mood_values == [i \in 1..n |-> MoodScore(interactions[i].mood)]
      total == SumSeq(mood_values)
      \* np.var: mean of squared deviations; n*v - total is n times the deviation
      var == SumSeq([i \in 1..n |-> (n * mood_values[i] - total) * (n * mood_values[i] - total)])
             \div (n * n * n * 100)
      stability == IF n > 1 THEN 100 - var ELSE 50
      week_ago == NowUtc(-7)
      cmp == [i \in 1..n |-> DatetimeGreater(interactions[i].timestamp, week_ago)]
      recent_sessions == {i \in 1..n : cmp[i] = "True"}
      frequency == Min(100, (Cardinality(recent_sessions) * 100) \div 7)
      first10 == Take(interactions, 10)
      crisis_count == SumSeq([i \in 1..Len(first10) |->
                                CrisisKeywordCount(lower(Corpus[first10[i].message]))])
  IN  IF ~numpy THEN FeaturesError("NameError")
      ELSE IF n = 0 THEN [err |-> "none", features |-> <<50, 50, 50, 50>>]
      ELSE IF \E i \in 1..n : cmp[i] = "TypeError" THEN FeaturesError("TypeError")
      ELSE [err |-> "none",
            features |-> <<avg, stability, frequency, Min(100, crisis_count * 10)>>]

\* RiskPredictor.generate_recommendations
generate_recommendations(risk_level) ==
  CASE risk_level = "critical" ->
         << "Immediate professional intervention required",
            "Contact emergency services or crisis hotline",
            "Consider inpatient care evaluation" >>
    [] risk_level = "high" ->
         << "Schedule urgent appointment with mental health professional",
            "Increase session frequency to daily check-ins",
            "Consider medication evaluation" >>
    [] risk_level = "moderate" ->
         << "Regular therapy sessions recommended",
            "Practice daily mindfulness or meditation",
            "Engage with peer support groups" >>
    [] OTHER ->
         << "Continue self-care practices",
            "Weekly mental health check-ins",
            "Maintain social connections" >>

RiskError(e) ==
  [err |-> e, score |-> 0, level |-> "none", intervention_type |-> "none",
   factors |-> << >>, recommendations |-> << >>]

\* the tiers of predict_risk with strict comparisons
RiskTierStrict(risk_prob) ==
  IF risk_prob > 80 THEN [level |-> "critical", intervention |-> "emergency"]
  ELSE IF risk_prob > 60 THEN [level |-> "high", intervention |-> "professional"]
  ELSE IF risk_prob > 40 THEN [level |-> "moderate", intervention |-> "peer_support"]
  ELSE [level |-> "low", intervention |-> "self_help"]

\* the if/elif chain of predict_risk; risk_prob in hundredths
RiskTier(risk_prob) ==
  IF risk_prob >= 80 THEN [level |-> "critical", intervention |-> "emergency"]
  ELSE IF risk_prob >= 60 THEN [level |-> "high", intervention |-> "professional"]
  ELSE IF risk_prob >= 40 THEN [level |-> "moderate", intervention |-> "peer_support"]
  ELSE [level |-> "low", intervention |-> "self_help"]

\* RiskPredictor.predict_risk.  sklearn: scikit-learn and joblib were imported
\* (HAS_ML is numpy /\ sklearn, and self.model is set exactly when HAS_ML);
\* proba: the classifier's predict_proba(...)[0][1] in hundredths, an input
\* because the classifier is scikit-learn's.
predict_risk(rows, numpy, sklearn, proba) ==
  LET f == extract_features(rows, numpy)
      risk_prob == IF numpy /\ sklearn THEN proba ELSE SumSeq(f.features) \div 4
      tier == RiskTier(risk_prob)
  IN  IF f.err # "none" THEN RiskError(f.err)
      ELSE [err |-> "none", score |-> risk_prob, level |-> tier.level,
            intervention_type |-> tier.intervention,
            factors |-> f.features,
            recommendations |-> generate_recommendations(tier.level)]

\* the sum of pattern['weight'] over every keyword found, in tenths
CrisisScore(message_lower) ==
  SumSeq([p \in 1..Len(CRISIS_PATTERNS) |->
            CRISIS_PATTERNS[p].weight *
            Cardinality({k \in 1..Len(CRISIS_PATTERNS[p].keywords) :
                           Contains(CRISIS_PATTERNS[p].keywords[k], message_lower)})])

\* some keyword of a pattern with weight >= 0.9 was found
ImmediateCrisis(message_lower) ==
  \E p \in 1..Len(CRISIS_PATTERNS) :
     /\ CRISIS_PATTERNS[p].weight >= 9
     /\ includes_any(message_lower, CRISIS_PATTERNS[p].keywords)

\* the combination of assess_crisis_level without the cap at 1.0
CombineScoresNoCap(crisis_score, risk_score) ==
  crisis_score * 60 + risk_score * 4

\* min(1.0, crisis_score * 0.6 + risk_score * 0.4) in thousandths
CombineScores(crisis_score, risk_score) ==
  Min(1000, crisis_score * 60 + risk_score * 4)

\* CrisisManager.assess_crisis_level; final_score in thousandths
assess_crisis_level(message, rows, numpy, sklearn, proba) ==
  LET message_lower == lower(message)
      crisis_score == CrisisScore(message_lower)
      immediate_crisis == ImmediateCrisis(message_lower)
      risk_assessment == predict_risk(rows, numpy, sklearn, proba)
      final_score == CombineScores(crisis_score, risk_assessment.score)
  IN  IF risk_assessment.err # "none"
      THEN [err |-> risk_assessment.err, final_score |-> 0, crisis |-> FALSE,
            risk_score |-> 0]
      ELSE [err |-> "none", final_score |-> final_score,
            crisis |-> immediate_crisis \/ final_score >= 800,
            risk_score |-> risk_assessment.score]

(***************************************************************************)
(* mcp_llm.py: analysis of a chat message                                  *)
(***************************************************************************)
\* CrisisManager.generate_crisis_response: the fixed hotline text
\* ("IMMEDIATE SAFETY ALERT ... Crisis Lifeline: 988 ...")
generate_crisis_response ==
  << "IMMEDIATE SAFETY ALERT: Crisis Lifeline 988, Crisis Text 741741, Emergency 911" >>

\* emotion_patterns.items() of basic_mood_detection, in dict order
emotion_patterns ==
  << [emotion |-> "sad",      keywords |-> EP_sad],
     [emotion |-> "anxious",  keywords |-> EP_anxious],
     [emotion |-> "angry",    keywords |-> EP_angry],
     [emotion |-> "happy",    keywords |-> EP_happy],
     [emotion |-> "tired",    keywords |-> EP_tired],
     [emotion |-> "confused", keywords |-> EP_confused] >>

\* basic_mood_detection(message)
basic_mood_detection(message) ==
  LET message_lower == lower(message)
      score == [e \in 1..Len(emotion_patterns) |->
                  Cardinality({k \in 1..Len(emotion_patterns[e].keywords) :
                                 Contains(emotion_patterns[e].keywords[k], message_lower)})]
      scored == {e \in 1..Len(emotion_patterns) : score[e] > 0}
      \* max(...) keeps the first of the entries with the highest score
      best == CHOOSE e \in scored :
                \A o \in scored : score[e] > score[o] \/ (score[e] = score[o] /\ e <= o)
  IN  IF \E p \in 1..Len(CRISIS_PATTERNS) :
           includes_any(message_lower, CRISIS_PATTERNS[p].keywords)
      THEN "crisis"
      ELSE IF scored # {} THEN emotion_patterns[best].emotion
      ELSE "neutral"

\* get_user_context(user_id): the fields the analysis reads.
\* rows: the user's interactions in insertion order; user_info: the user has
\* a row in table users.
get_user_context(rows, user_info) ==
  LET recent == Take(Reverse(rows), 10)
  IN  IF ~user_info /\ recent = << >>
      THEN [is_new_user |-> TRUE, last_mood |-> None]
      ELSE [is_new_user |-> Len(recent) = 0,
            last_mood |-> IF recent # << >> /\ ~IsNone(recent[1].mood)
                          THEN recent[1].mood ELSE Some("neutral")]

AnalysisError(e) ==
  [err |-> e, mood |-> None, crisis_detected |-> FALSE, crisis_score |-> None,
   intervention_triggered |-> FALSE, response |-> None, risk_score |-> None,
   llm_called |-> FALSE, fallback |-> FALSE]

\* fallback_enhanced_response(message, user_context, user_id)
fallback_enhanced_response(message, user_context, rows, numpy, sklearn, proba, llm_called) ==
  LET mood == basic_mood_detection(message)
      risk_assessment == predict_risk(rows, numpy, sklearn, proba)
      concern == IF risk_assessment.level # "low" THEN << "concerning patterns" >> ELSE << >>
      remember == IF ~user_context.is_new_user
                  THEN << "I remember", Val(user_context.last_mood) >> ELSE << >>
  IN  IF risk_assessment.err # "none" THEN AnalysisError(risk_assessment.err)
      ELSE [err |-> "none", mood |-> Some(mood), crisis_detected |-> FALSE,
            crisis_score |-> None, intervention_triggered |-> FALSE,
            response |-> Some(<< "I'm here to support you." >> \o concern \o remember
                              \o << "mood response", mood >>),
            risk_score |-> Some(risk_assessment.score),
            llm_called |-> llm_called, fallback |-> TRUE]

\* what ollama.generate can give back: a text holding a JSON object with the
\* requested fields, a text without a JSON object, or an exception
LLMOutcomes ==
  {"json", "no_json", "exception"}

\* the analysis that asks the LLM before it looks at the crisis assessment
enhanced_llm_analyze_llm_first(message, user_context, rows, numpy, sklearn, has_ollama, proba, llm) ==
  LET a == assess_crisis_level(message, rows, numpy, sklearn, proba)
      risk_assessment == predict_risk(rows, numpy, sklearn, proba)
  IN  IF a.err # "none" THEN AnalysisError(a.err)
      ELSE IF has_ollama /\ llm = "json" /\ risk_assessment.err = "none"
      THEN [err |-> "none", mood |-> Some("tired"), crisis_detected |-> FALSE,
            crisis_score |-> None, intervention_triggered |-> FALSE,
            response |-> Some(<< "llm response" >>),
            risk_score |-> Some(risk_assessment.score),
            llm_called |-> TRUE, fallback |-> FALSE]
      ELSE IF a.crisis
      THEN [err |-> "none", mood |-> Some("crisis"), crisis_detected |-> TRUE,
            crisis_score |-> Some(a.final_score), intervention_triggered |-> TRUE,
            response |-> Some(generate_crisis_response), risk_score |-> None,
            llm_called |-> has_ollama, fallback |-> FALSE]
      ELSE fallback_enhanced_response(message, user_context, rows, numpy, sklearn,
                                      proba, has_ollama)

\* enhanced_llm_analyze(message, user_context, user_id): the result, and in
\* crisis_score the row trigger_crisis_intervention has inserted when
\* intervention_triggered.  has_ollama: `import ollama` succeeded; llm: the
\* outcome of ollama.generate.
enhanced_llm_analyze(message, user_context, rows, numpy, sklearn, has_ollama, proba, llm) ==
  LET a == assess_crisis_level(message, rows, numpy, sklearn, proba)
      risk_assessment == predict_risk(rows, numpy, sklearn, proba)
  IN  IF a.err # "none" THEN AnalysisError(a.err)
      ELSE IF a.crisis
      THEN [err |-> "none", mood |-> Some("crisis"), crisis_detected |-> TRUE,
            crisis_score |-> Some(a.final_score), intervention_triggered |-> TRUE,
            response |-> Some(generate_crisis_response), risk_score |-> None,
            llm_called |-> FALSE, fallback |-> FALSE]
      ELSE IF ~has_ollama
      THEN fallback_enhanced_response(message, user_context, rows, numpy, sklearn,
                                      proba, FALSE)
      ELSE IF llm = "json" /\ risk_assessment.err = "none"
      THEN [err |-> "none", mood |-> Some("tired"), crisis_detected |-> FALSE,
            crisis_score |-> None, intervention_triggered |-> FALSE,
            response |-> Some(<< "llm response" >>),
            risk_score |-> Some(risk_assessment.score),
            llm_called |-> TRUE, fallback |-> FALSE]
      ELSE fallback_enhanced_response(message, user_context, rows, numpy, sklearn,
                                      proba, risk_assessment.err = "none")

\* enhanced_llm_analyze reaches `await run_in_executor(...)` (427-431): the
\* assessment raised nothing and found no crisis, ollama is imported, and
\* predict_risk inside the try block raised nothing.  The other awaits of the
\* chat handlers are of coroutines that never yield to the event loop.
Suspends(message, rows, numpy, sklearn, has_ollama, proba) ==
  LET a == assess_crisis_level(message, rows, numpy, sklearn, proba)
      risk_assessment == predict_risk(rows, numpy, sklearn, proba)
  IN  /\ a.err = "none"
      /\ ~a.crisis
      /\ has_ollama
      /\ risk_assessment.err = "none"

\* enhanced_llm_analyze from the return of run_in_executor on (433-455).
\* user_context and risk_score (risk_assessment.score) are the locals computed
\* before the await; rows are the user's interactions at the time of the
\* resumption, which fallback_enhanced_response reads again.
ResumedAnalysis(message, user_context, risk_score, rows, numpy, sklearn, proba, llm) ==
  IF llm = "json"
  THEN [err |-> "none", mood |-> Some("tired"), crisis_detected |-> FALSE,
        crisis_score |-> None, intervention_triggered |-> FALSE,
        response |-> Some(<< "llm response" >>),
        risk_score |-> Some(risk_score),
        llm_called |-> TRUE, fallback |-> FALSE]
  ELSE fallback_enhanced_response(message, user_context, rows, numpy, sklearn,
                                  proba, TRUE)

\* the crisis_interventions row of trigger_crisis_intervention
InterventionRow(crisis_score) ==
  [risk_score |-> crisis_score, intervention_type |-> "emergency",
   bot_response |-> generate_crisis_response]

(***************************************************************************)
(* microservices/offlineCacheService.py: per-user JSON files               *)
(*                                                                         *)
(* files maps a user id to None (no file user_<md5>.json) or to the        *)
(* decoded content of the file.  A chat entry is                           *)
(*   [user_id, msg, mood, sentiment_score, timestamp]                      *)
(* with msg the index of the message in Corpus (message_text is the        *)
(* stripped text) and timestamp an Optional number: isoformat() strings of *)
(* one clock compare as the instants do.  The keywords of an entry are not *)
(* modelled.  mood is Optional: a caller of saveChat may pass an entry      *)
(* without the key.                                                        *)
(***************************************************************************)
\* hashlib.md5(user_id.encode()).hexdigest(): one digest per user id
md5(user_id) ==
  << "md5", user_id >>

\* {"user_id": user_id, "chat_history": [], "metadata": {}}
EmptyUserData(user_id) ==
  [user_id |-> user_id, chat_history |-> << >>, metadata |-> None, last_updated |-> None]

\* _load_user_data(user_id)
load_user_data(files, user_id) ==
  IF IsNone(files[user_id]) THEN EmptyUserData(user_id) ELSE Val(files[user_id])

\* the chat entry with its timestamp filled in when the caller gave none
WithTimestamp(chat_entry, now) ==
  IF IsNone(chat_entry.timestamp)
  THEN [chat_entry EXCEPT !.timestamp = Some(now)]
  ELSE chat_entry

\* saveChat without the update of the metadata
UserDataAfterSaveStaleMetadata(files, user_id, chat_entry, now) ==
  LET entry == WithTimestamp(chat_entry, now)
      user_data == load_user_data(files, user_id)
  IN  [user_data EXCEPT !.chat_history = Append(@, entry),
                        !.last_updated = Some(now)]

\* the user data saveChat writes: the entry appended, the metadata updated,
\* last_updated set by _save_user_data
UserDataAfterSave(files, user_id, chat_entry, now) ==
  LET entry == WithTimestamp(chat_entry, now)
      user_data == load_user_data(files, user_id)
      chat_history == Append(user_data.chat_history, entry)
  IN  [user_id |-> user_data.user_id,
       chat_history |-> chat_history,
       metadata |-> Some([total_messages |-> Len(chat_history),
                          last_interaction |-> Val(entry.timestamp),
                          last_mood |-> IF IsNone(entry.mood) THEN "neutral"
                                        ELSE Val(entry.mood)]),
       last_updated |-> Some(now)]

\* the line _save_to_global_log appends
GlobalEntry(user_id, entry) ==
  [user_id_hash |-> md5(user_id), entry |-> entry]

\* the position of e in a list sorted by timestamp: behind every element whose
\* timestamp is not larger (sorted() is stable)
InsertByTimestamp(s, e) ==
  LET k == Cardinality({i \in 1..Len(s) : Val(s[i].timestamp) <= Val(e.timestamp)})
  IN  SubSeq(s, 1, k) \o << e >> \o SubSeq(s, k + 1, Len(s))

\* sorted(history, key=lambda x: x.get("timestamp", ""))
RECURSIVE SortByTimestamp(_)
SortByTimestamp(history) ==
  IF history = << >> THEN << >>
  ELSE InsertByTimestamp(SortByTimestamp(SubSeq(history, 1, Len(history) - 1)),
                         history[Len(history)])

\* getChatHistory(user_id, limit); limit: Optional non-negative integer.
\* `if limit:` is false for None and for 0.
getChatHistory(files, user_id, limit) ==
  LET sorted_history == SortByTimestamp(load_user_data(files, user_id).chat_history)
  IN  IF ~IsNone(limit) /\ Val(limit) # 0
      THEN LastN(sorted_history, Val(limit))
      ELSE sorted_history

\* getUserMetadata(user_id): the stored metadata; the statistics it derives
\* from the history are added to the returned copy only and are not modelled
getUserMetadata(files, user_id) ==
  load_user_data(files, user_id).metadata

\* saveChat(user_id, chat_entry): the return value and the stores afterwards.
\* io_ok is false when open(user_file, 'w') raises IOError; the stores are a
\* key-value store, a failed write leaves them as they were.
saveChat(files, log, user_id, chat_entry, now, io_ok) ==
  IF io_ok
  THEN [ret |-> TRUE,
        files |-> [files EXCEPT ![user_id] =
                     Some(UserDataAfterSave(files, user_id, chat_entry, now))],
        log |-> Append(log, GlobalEntry(user_id, WithTimestamp(chat_entry, now)))]
  ELSE [ret |-> FALSE, files |-> files, log |-> log]

\* clearUserData(user_id): unlinks the file of the user, nothing else
clearUserData(files, user_id) ==
  [ret |-> TRUE, files |-> [files EXCEPT ![user_id] = None]]

(***************************************************************************)
(* routes/mcp.py MentalHealthMCP: the file helpers                         *)
(***************************************************************************)
\* asyncio.to_thread(open, ...) returns a coroutine object
to_thread_open ==
  "coroutine"

\* `async with obj as f:`: a coroutine object has no __aenter__, the statement
\* raises TypeError before the body runs and before the file is opened
async_with(obj) ==
  IF obj = "coroutine" THEN "TypeError" ELSE "entered"

\* MentalHealthMCP._load_user_data: the file is read only when it exists; the
\* TypeError is not among the exceptions the method catches
mcp_load_user_data(files, user_id) ==
  IF ~IsNone(files[user_id]) /\ async_with(to_thread_open) = "TypeError"
  THEN [raised |-> "TypeError", data |-> EmptyUserData(user_id)]
  ELSE [raised |-> "", data |-> load_user_data(files, user_id)]

\* MentalHealthMCP._save_user_data: only IOError is caught
mcp_save_user_data(files, user_id, data) ==
  IF async_with(to_thread_open) = "TypeError"
  THEN [raised |-> "TypeError", ret |-> FALSE, files |-> files]
  ELSE [raised |-> "", ret |-> TRUE, files |-> [files EXCEPT ![user_id] = Some(data)]]

\* MentalHealthMCP.save_chat: `except Exception` turns every exception of the
\* helpers into the return value False
save_chat(files, log, user_id, chat_entry, now) ==
  LET loaded == mcp_load_user_data(files, user_id)
      written == mcp_save_user_data(files, user_id,
                                    UserDataAfterSave(files, user_id, chat_entry, now))
  IN  IF loaded.raised # "" \/ written.raised # "" \/ ~written.ret
      THEN [ret |-> FALSE, files |-> files, log |-> log]
      ELSE [ret |-> TRUE, files |-> written.files,
            log |-> IF async_with(to_thread_open) = "TypeError" THEN log
                    ELSE Append(log, GlobalEntry(user_id, WithTimestamp(chat_entry, now)))]

\* MentalHealthMCP.get_chat_history(user_id, limit): [] on any exception
get_chat_history(files, user_id, limit) ==
  LET loaded == mcp_load_user_data(files, user_id)
      history == SortByTimestamp(loaded.data.chat_history)
  IN  IF loaded.raised # "" THEN << >>
      ELSE IF ~IsNone(limit) /\ Val(limit) # 0
           THEN LastN(history, Val(limit))
           ELSE history

\* MentalHealthMCP.clear_user_data(user_id): unlinks the file and deletes the
\* session of the user
clear_user_data(files, sessions, user_id) ==
  [ret |-> TRUE,
   files |-> [files EXCEPT ![user_id] = None],
   sessions |-> [sessions EXCEPT ![user_id] = None]]

(***************************************************************************)
(* routes/respond.py and routes/mcp.py: sessions and the reply             *)
(*                                                                         *)
(* A session is None (no key in user_sessions) or                          *)
(* [history, last_question]; a history item is [mood, msg].  A reply is a  *)
(* sequence of parts [kind, arg] in the order in which the handler         *)
(* concatenates them; which sentence random.choice picks from a list of    *)
(* replies is not modelled, the part names the list.                       *)
(***************************************************************************)
MAX_HISTORY ==
  5

follow_ups ==
  [happy |-> << "What else has made you smile recently?",
                "Do you want to share more good news?" >>,
   sad |-> << "Would you like to talk about what's troubling you?",
              "Can I help you find ways to feel better?" >>,
   anxious |-> << "What do you think is making you anxious?",
                  "Want to try a quick relaxation exercise together?" >>,
   neutral |-> << "Anything new or interesting on your mind today?",
                  "Would you like to share something fun or relaxing?" >>]

\* reply_templates["crisis"][0], without the emoji it starts with
reply_templates_crisis ==
  "Your safety matters. Please call a helpline immediately: +91-9152987821"

Part(kind, arg) ==
  [kind |-> kind, arg |-> arg]

\* getAdaptiveReply(mood, score) / get_adaptive_reply: the list the reply is
\* drawn from; score is the integer of the mood detector, compared with
\* 0.7, -0.6 and -0.5 (in tenths)
getAdaptiveReply(mood, score) ==
  IF mood = "crisis" THEN "crisis_responses"
  ELSE IF mood = "happy"
       THEN IF Val(score) * 10 > 7 THEN "happy_responses_very" ELSE "happy_responses"
  ELSE IF mood = "sad"
       THEN IF Val(score) * 10 < -6 THEN "sad_responses_very" ELSE "sad_responses"
  ELSE IF mood = "anxious"
       THEN IF Val(score) * 10 < -5 THEN "anxious_responses_high" ELSE "anxious_responses"
  ELSE "neutral_responses"

\* follow_ups.get(mood, [])
possible_follow_ups(mood) ==
  IF mood \in DOMAIN follow_ups THEN follow_ups[mood] ELSE << >>

\* the choice that goes back to the first question after the last one
NextFollowUpWrap(last_question, possible) ==
  IF IsNone(last_question) /\ possible # << >>
  THEN Some(possible[1])
  ELSE IF ~IsNone(last_question) /\ InList(Val(last_question), possible)
       THEN LET idx == CHOOSE i \in 1..Len(possible) :
                         /\ possible[i] = Val(last_question)
                         /\ \A j \in 1..(i - 1) : possible[j] # Val(last_question)
            IN  IF idx < Len(possible) THEN Some(possible[idx + 1]) ELSE Some(possible[1])
       ELSE None

\* the follow-up question chosen from last_question and the list of the mood
NextFollowUp(last_question, possible) ==
  IF IsNone(last_question) /\ possible # << >>
  THEN Some(possible[1])
  ELSE IF ~IsNone(last_question) /\ InList(Val(last_question), possible)
       THEN LET idx == CHOOSE i \in 1..Len(possible) :
                         /\ possible[i] = Val(last_question)
                         /\ \A j \in 1..(i - 1) : possible[j] # Val(last_question)
            IN  IF idx < Len(possible) THEN Some(possible[idx + 1]) ELSE None
       ELSE None

\* get_last_mood_mention(user_id): session["history"][-2], called before the
\* current message is appended
get_last_mood_mention(sessions, user_id) ==
  IF IsNone(sessions[user_id]) \/ Len(Val(sessions[user_id]).history) < 2
  THEN None
  ELSE LET history == Val(sessions[user_id]).history
       IN  Some(history[Len(history) - 1])

\* update_session without the eviction of the oldest entry
update_session_unbounded(sessions, user_id, mood, msg, last_question) ==
  LET session == IF IsNone(sessions[user_id])
                 THEN [history |-> << >>, last_question |-> None]
                 ELSE Val(sessions[user_id])
      appended == Append(session.history, [mood |-> mood, msg |-> msg])
  IN  [sessions EXCEPT ![user_id] =
         Some([history |-> appended, last_question |-> last_question])]

\* update_session(user_id, mood, keywords, message_text, last_question)
update_session(sessions, user_id, mood, msg, last_question) ==
  LET session == IF IsNone(sessions[user_id])
                 THEN [history |-> << >>, last_question |-> None]
                 ELSE Val(sessions[user_id])
      appended == Append(session.history, [mood |-> mood, msg |-> msg])
      history == IF Len(appended) > MAX_HISTORY THEN Tail(appended) ELSE appended
  IN  [sessions EXCEPT ![user_id] =
         Some([history |-> history, last_question |-> last_question])]

\* media["mimetype"].split("/")[0]; a mimetype is the pair <<type, subtype>>
media_type(media) ==
  Val(media)[1]

MediaPart(media) ==
  IF IsNone(media) THEN << >>
  ELSE IF media_type(media) = "image" THEN << Part("media", "image") >>
  ELSE IF media_type(media) = "video" THEN << Part("media", "video") >>
  ELSE << Part("media", "media") >>

\* the reply that takes a last_question of another mood's list as no question
\* at all and starts the list of the current mood at once
ReplyPartsRestart(mood, score, sessions, user_id, media) ==
  LET session == sessions[user_id]
      last_question == IF IsNone(session) THEN None ELSE Val(session).last_question
      follow_up_question ==
        IF ~IsNone(last_question) /\ ~InList(Val(last_question), possible_follow_ups(mood))
        THEN NextFollowUp(None, possible_follow_ups(mood))
        ELSE NextFollowUp(last_question, possible_follow_ups(mood))
      last_mood_mention == get_last_mood_mention(sessions, user_id)
  IN  [follow_up_question |-> follow_up_question,
       reply_text |->
         << Part("adaptive", getAdaptiveReply(mood, score)) >>
         \o (IF ~IsNone(last_mood_mention) /\ Val(last_mood_mention).mood # mood
             THEN << Part("last_mood", Val(last_mood_mention).mood) >> ELSE << >>)
         \o (IF ~IsNone(follow_up_question)
             THEN << Part("follow_up", Val(follow_up_question)) >> ELSE << >>)
         \o MediaPart(media)]

\* the reply before the crisis override: adaptive reply, remark on the last
\* mood, follow-up question, media acknowledgement
ReplyParts(mood, score, sessions, user_id, media) ==
  LET session == sessions[user_id]
      last_question == IF IsNone(session) THEN None ELSE Val(session).last_question
      follow_up_question == NextFollowUp(last_question, possible_follow_ups(mood))
      last_mood_mention == get_last_mood_mention(sessions, user_id)
  IN  [follow_up_question |-> follow_up_question,
       reply_text |->
         << Part("adaptive", getAdaptiveReply(mood, score)) >>
         \o (IF ~IsNone(last_mood_mention) /\ Val(last_mood_mention).mood # mood
             THEN << Part("last_mood", Val(last_mood_mention).mood) >> ELSE << >>)
         \o (IF ~IsNone(follow_up_question)
             THEN << Part("follow_up", Val(follow_up_question)) >> ELSE << >>)
         \o MediaPart(media)]

\* the summary added only when the history is longer than MAX_HISTORY
SummaryPartAboveMax(history) ==
  IF Len(history) > MAX_HISTORY THEN << Part("summary", "Quick summary") >> ELSE << >>

\* "\n\nQuick summary: " + summarizeChat(history) when len(history) >= MAX_HISTORY
SummaryPart(history) ==
  IF Len(history) >= MAX_HISTORY THEN << Part("summary", "Quick summary") >> ELSE << >>

\* the reply with the helpline template added behind the parts
ComposeReplyKeepParts(mood, score, sessions, user_id, media, history) ==
  LET r == ReplyParts(mood, score, sessions, user_id, media)
  IN  IF mood = "crisis"
      THEN [follow_up_question |-> None,
            reply_text |-> r.reply_text \o << Part("template", reply_templates_crisis) >>
                           \o SummaryPart(history)]
      ELSE [follow_up_question |-> r.follow_up_question,
            reply_text |-> r.reply_text \o SummaryPart(history)]

\* reply_text and follow_up_question of respond (respond.py 146-185, the same
\* statements in MentalHealthMCP.respond 722-762): the crisis override
\* replaces the reply, the summary is added behind it
ComposeReply(mood, score, sessions, user_id, media, history) ==
  LET r == ReplyParts(mood, score, sessions, user_id, media)
  IN  IF mood = "crisis"
      THEN [follow_up_question |-> None,
            reply_text |-> << Part("template", reply_templates_crisis) >>
                           \o SummaryPart(history)]
      ELSE [follow_up_question |-> r.follow_up_question,
            reply_text |-> r.reply_text \o SummaryPart(history)]

(***************************************************************************)
(* services/moodDetection.py: context modifiers and mood scores            *)
(***************************************************************************)

\* INTENSITY_MODIFIERS, the factors in tenths
INTENSITY_MODIFIERS ==
  << [word |-> <<"v","e","r","y">>, factor |-> 15],
     [word |-> <<"r","e","a","l","l","y">>, factor |-> 14],
     [word |-> <<"e","x","t","r","e","m","e","l","y">>, factor |-> 18],
     [word |-> <<"i","n","c","r","e","d","i","b","l","y">>, factor |-> 16],
     [word |-> <<"a","b","s","o","l","u","t","e","l","y">>, factor |-> 17],
     [word |-> <<"q","u","i","t","e">>, factor |-> 12],
     [word |-> <<"p","r","e","t","t","y">>, factor |-> 11],
     [word |-> <<"s","o","m","e","w","h","a","t">>, factor |-> 8],
     [word |-> <<"a"," ","b","i","t">>, factor |-> 6],
     [word |-> <<"s","l","i","g","h","t","l","y">>, factor |-> 5],
     [word |-> <<"t","o","t","a","l","l","y">>, factor |-> 16],
     [word |-> <<"c","o","m","p","l","e","t","e","l","y">>, factor |-> 17],
     [word |-> <<"u","t","t","e","r","l","y">>, factor |-> 18],
     [word |-> <<"d","e","e","p","l","y">>, factor |-> 14] >>

MK_sad_emotions ==
  << <<"s","a","d">>,
     <<"d","e","p","r","e","s","s","e","d">>,
     <<"d","o","w","n">>,
     <<"u","n","h","a","p","p","y">>,
     <<"h","o","p","e","l","e","s","s">>,
     <<"m","i","s","e","r","a","b","l","e">> >>

MK_sad_despair ==
  << <<"w","o","r","t","h","l","e","s","s">>,
     <<"u","s","e","l","e","s","s">>,
     <<"p","o","i","n","t","l","e","s","s">>,
     <<"e","m","p","t","y">>,
     <<"l","o","s","t">> >>

MK_sad_loss ==
  << <<"c","r","y">>,
     <<"t","e","a","r">>,
     <<"l","o","n","e","l","y">>,
     <<"a","l","o","n","e">>,
     <<"a","b","a","n","d","o","n","e","d">>,
     <<"g","r","i","e","f">> >>

MK_sad_crying ==
  << <<"c","r","y","i","n","g">>,
     <<"s","o","b">>,
     <<"w","e","e","p">> >>

MK_anxious_emotions ==
  << <<"a","n","x","i","o","u","s">>,
     <<"n","e","r","v","o","u","s">>,
     <<"w","o","r","r","i","e","d">>,
     <<"u","n","e","a","s","y">>,
     <<"r","e","s","t","l","e","s","s">> >>

MK_anxious_panic ==
  << <<"p","a","n","i","c">>,
     <<"p","a","n","i","c"," ","a","t","t","a","c","k">>,
     <<"t","e","r","r","i","f","i","e","d">>,
     <<"s","c","a","r","e","d">>,
     <<"a","f","r","a","i","d">>,
     <<"f","e","a","r">> >>

MK_anxious_stress ==
  << <<"s","t","r","e","s","s","e","d">>,
     <<"s","t","r","e","s","s">>,
     <<"o","v","e","r","w","h","e","l","m","e","d">>,
     <<"t","e","n","s","e">> >>

MK_angry_emotions ==
  << <<"a","n","g","r","y">>,
     <<"m","a","d">>,
     <<"f","u","r","i","o","u","s">>,
     <<"a","n","n","o","y","e","d">>,
     <<"i","r","r","i","t","a","t","e","d">> >>

MK_angry_rage ==
  << <<"r","a","g","e">>,
     <<"o","u","t","r","a","g","e","d">>,
     <<"e","n","r","a","g","e","d">>,
     <<"h","a","t","e">>,
     <<"r","e","s","e","n","t","f","u","l">> >>

MK_happy_emotions ==
  << <<"h","a","p","p","y">>,
     <<"j","o","y","f","u","l">>,
     <<"j","o","y">>,
     <<"e","x","c","i","t","e","d">>,
     <<"c","h","e","e","r","f","u","l">>,
     <<"d","e","l","i","g","h","t","e","d">> >>

MK_happy_achievement ==
  << <<"p","r","o","u","d">>,
     <<"a","c","c","o","m","p","l","i","s","h","e","d">>,
     <<"s","u","c","c","e","s","s","f","u","l">>,
     <<"c","o","n","f","i","d","e","n","t">> >>

MK_happy_energy ==
  << <<"e","n","e","r","g","e","t","i","c">>,
     <<"m","o","t","i","v","a","t","e","d">>,
     <<"e","n","t","h","u","s","i","a","s","t","i","c">>,
     <<"o","p","t","i","m","i","s","t","i","c">> >>

\* MOOD_KEYWORDS, moods and categories in the order of the dictionary
MOOD_KEYWORDS ==
  << [mood |-> "sad", categories |->
        << [category |-> "emotions", keywords |-> MK_sad_emotions],
           [category |-> "despair", keywords |-> MK_sad_despair],
           [category |-> "loss", keywords |-> MK_sad_loss],
           [category |-> "crying", keywords |-> MK_sad_crying] >>],
     [mood |-> "anxious", categories |->
        << [category |-> "emotions", keywords |-> MK_anxious_emotions],
           [category |-> "panic", keywords |-> MK_anxious_panic],
           [category |-> "stress", keywords |-> MK_anxious_stress] >>],
     [mood |-> "angry", categories |->
        << [category |-> "emotions", keywords |-> MK_angry_emotions],
           [category |-> "rage", keywords |-> MK_angry_rage] >>],
     [mood |-> "happy", categories |->
        << [category |-> "emotions", keywords |-> MK_happy_emotions],
           [category |-> "achievement", keywords |-> MK_happy_achievement],
           [category |-> "energy", keywords |-> MK_happy_energy] >>] >>

NEGATION_WORDS ==
  << <<"n","o","t">>,
     <<"n","e","v","e","r">>,
     <<"n","o">>,
     <<"n","o","t","h","i","n","g">>,
     <<"n","o","b","o","d","y">>,
     <<"n","o","w","h","e","r","e">>,
     <<"n","e","i","t","h","e","r">>,
     <<"n","o","n","e">>,
     <<"c","a","n","'","t">>,
     <<"w","o","n","'","t">>,
     <<"d","o","n","'","t">>,
     <<"i","s","n","'","t">>,
     <<"a","r","e","n","'","t">>,
     <<"w","a","s","n","'","t">>,
     <<"w","e","r","e","n","'","t">> >>

\* category_weights of calculate_mood_scores, in tenths
category_weights ==
  << [category |-> "emotions", weight |-> 12],
     [category |-> "despair", weight |-> 15],
     [category |-> "panic", weight |-> 14],
     [category |-> "rage", weight |-> 13],
     [category |-> "achievement", weight |-> 13],
     [category |-> "energy", weight |-> 11],
     [category |-> "loss", weight |-> 14],
     [category |-> "crying", weight |-> 12] >>

\* INTENSITY_MODIFIERS[word] for a word that is a key of the dictionary
IntensityFactor(word) ==
  INTENSITY_MODIFIERS[CHOOSE k \in 1..Len(INTENSITY_MODIFIERS) :
                        INTENSITY_MODIFIERS[k].word = word].factor

\* the second loop of analyze_sentiment_context: modifier *= factor for every
\* word of the context that is a key of INTENSITY_MODIFIERS
RECURSIVE ApplyIntensity(_, _)
ApplyIntensity(modifier, context) ==
  IF context = << >> THEN modifier
  ELSE IF \E k \in 1..Len(INTENSITY_MODIFIERS) : INTENSITY_MODIFIERS[k].word = Head(context)
       THEN ApplyIntensity((modifier * IntensityFactor(Head(context))) \div 10, Tail(context))
       ELSE ApplyIntensity(modifier, Tail(context))

\* words[start:stop] of a Python list (0-based, stop excluded, clamped)
Slice(words, start, stop) ==
  SubSeq(words, start + 1, Min(stop, Len(words)))

\* analyze_sentiment_context(words, target_index); the modifier in units of
\* 1/10000 (1.0 is 10000, -0.8 is -8000; at most three factors of one decimal)
analyze_sentiment_context(words, target_index) ==
  LET start_check == Max(0, target_index - 3)
      context_before == Slice(words, start_check, target_index)
      negated == \E i \in 1..Len(context_before) : InList(context_before[i], NEGATION_WORDS)
  IN  ApplyIntensity(IF negated THEN -8000 ELSE 10000, context_before)

\* category_weights.get(category, 1.0), in tenths
category_weight(category) ==
  IF \E k \in 1..Len(category_weights) : category_weights[k].category = category
  THEN category_weights[CHOOSE k \in 1..Len(category_weights) :
                          category_weights[k].category = category].weight
  ELSE 10

\* the passes of the loop body of calculate_mood_scores that find
\* `word in keywords`: word index (0-based), mood, category and final_score
\* (base_score * context_modifier * category_weight, in units of 1/100000)
KeywordScores(words) ==
  { [index |-> i, mood |-> MOOD_KEYWORDS[m].mood,
     category |-> MOOD_KEYWORDS[m].categories[c].category,
     final_score |-> analyze_sentiment_context(words, i)
                     * category_weight(MOOD_KEYWORDS[m].categories[c].category)] :
      << i, m, c >> \in
        { h \in (0..(Len(words) - 1)) \X (1..Len(MOOD_KEYWORDS)) \X (1..4) :
            /\ h[3] <= Len(MOOD_KEYWORDS[h[2]].categories)
            /\ InList(words[h[1] + 1], MOOD_KEYWORDS[h[2]].categories[h[3]].keywords) } }

RECURSIVE SumScores(_)
SumScores(hits) ==
  IF hits = {} THEN 0
  ELSE LET h == CHOOSE h \in hits : TRUE
       IN  h.final_score + SumScores(hits \ {h})

\* calculate_mood_scores(text): the dictionary of the four mood scores
calculate_mood_scores(text) ==
  LET words == split(text)
      hits == KeywordScores(words)
  IN  [sad |-> SumScores({h \in hits : h.mood = "sad"}),
       anxious |-> SumScores({h \in hits : h.mood = "anxious"}),
       angry |-> SumScores({h \in hits : h.mood = "angry"}),
       happy |-> SumScores({h \in hits : h.mood = "happy"})]

(***************************************************************************)
(* Conversation insights (memorySummaryService.py) and user statistics     *)
(* (MentalHealthMCP); keywords, themes and the mood counts are left out    *)
(***************************************************************************)
\* [entry.get('mood', 'neutral') for entry in chat_history]
MoodsOf(chat_history) ==
  [i \in 1..Len(chat_history) |->
     IF IsNone(chat_history[i].mood) THEN "neutral" ELSE Val(chat_history[i].mood)]

\* the computation of mood_trend, the same statements in both functions
MoodTrend(moods) ==
  IF Len(moods) >= 3
  THEN LET recent_moods == LastN(moods, 3)
           seen == { recent_moods[i] : i \in 1..3 }
       IN  IF \A m \in seen : m \in {"sad", "anxious", "crisis"} THEN "concerning"
           ELSE IF \A m \in seen : m \in {"happy", "neutral"} THEN "positive"
           ELSE IF Cardinality(seen) > 2 THEN "fluctuating"
           ELSE "stable"
  ELSE "stable"

\* max(mood_distribution, key=mood_distribution.get): the mood with the most
\* entries, the one seen first among equals
DominantMood(moods) ==
  LET count(m) == Cardinality({ i \in 1..Len(moods) : moods[i] = m })
      first(m) == CHOOSE i \in 1..Len(moods) :
                    moods[i] = m /\ \A j \in 1..(i - 1) : moods[j] # m
      best == { m \in { moods[i] : i \in 1..Len(moods) } :
                  \A i \in 1..Len(moods) : count(moods[i]) <= count(m) }
  IN  CHOOSE m \in best : \A n \in best : first(m) <= first(n)

\* a result without the statistics: "no_data" or "error"
NoInsights(status) ==
  [status |-> status, total_messages |-> 0, dominant_mood |-> "", mood_trend |-> "",
   needs_attention |-> None, session_length |-> ""]

\* the dictionary both functions return for a non-empty history
Insights(chat_history) ==
  LET moods == MoodsOf(chat_history)
      mood_trend == MoodTrend(moods)
  IN  [status |-> "ok", total_messages |-> Len(chat_history),
       dominant_mood |-> DominantMood(moods), mood_trend |-> mood_trend,
       needs_attention |-> Some(mood_trend = "concerning"),
       session_length |-> IF Len(chat_history) > 10 THEN "extended" ELSE "brief"]

\* getConversationInsights(chat_history)
getConversationInsights(chat_history) ==
  IF chat_history = << >> THEN NoInsights("no_data") ELSE Insights(chat_history)

\* MentalHealthMCP.get_user_statistics(user_id): {"error": ...} on any exception
get_user_statistics(files, user_id) ==
  LET loaded == mcp_load_user_data(files, user_id)
      history == loaded.data.chat_history
  IN  IF loaded.raised # "" THEN NoInsights("error")
      ELSE IF history = << >> THEN NoInsights("no_data")
      ELSE Insights(history)

(***************************************************************************)
(* Inputs of the model                                                     *)
(***************************************************************************)
Users ==
  {"u1", "u2"}

\* message arguments: 0 is Python's None, i > 0 is Corpus[i]
MsgIds ==
  1..Len(Corpus)

MsgArg(m) ==
  IF m = 0 THEN None ELSE Some(Corpus[m])

\* int(compound * 5) for a VADER compound score in [-1, 1]
VaderScores ==
  (-5)..5

\* outputs of the risk classifier, in hundredths: the tier boundaries of
\* predict_risk and the two ends of the range
RiskProbs ==
  {0, 40, 60, 80, 100}

\* the messages and classifier outputs given to the chat tools
ChatMsgs ==
  {1, 2, 3}

ChatProbs ==
  {0, 100}

\* the concurrent chat calls: a message with an immediate crisis keyword and
\* one without, both chat tools
ChatUsers ==
  Users

ConcurrentMsgs ==
  {1, 2}

ChatTools ==
  {"chat_with_ai_therapist", "therapy_chat"}

\* number of chat calls that arrive in one run of the concurrent model
MaxChats ==
  2

\* number of tool calls of mcp_llm.py in one run of the model
MaxCalls ==
  2

\* an interactions row as the chat handlers insert it
InteractionRow(m, mood, risk_score) ==
  [message |-> m, mood |-> mood, risk_score |-> risk_score,
   timestamp |-> SqlTimestamp(0)]

\* stored interaction histories the risk functions are applied to: none, or
\* the row of one earlier chat
StoredHistories ==
  { << >>,
    << InteractionRow(2, Some("sad"), Some(40)) >>,
    << InteractionRow(1, Some("crisis"), None) >> }

\* chat entries a caller passes to saveChat: with and without a mood, with
\* and without a timestamp of its own (older than every clock reading)
CacheEntries(u) ==
  { [user_id |-> u, msg |-> 2, mood |-> Some("sad"), sentiment_score |-> Some(0),
     timestamp |-> ts] : ts \in {None, Some(1)} }
  \cup
  { [user_id |-> u, msg |-> 6, mood |-> None, sentiment_score |-> Some(0),
     timestamp |-> ts] : ts \in {None, Some(1)} }

\* limit arguments of getChatHistory
Limits ==
  {None, Some(0), Some(1), Some(2)}

\* number of saveChat and clearUserData calls in one run of the model
MaxCacheCalls ==
  3

\* (message, media) arguments of respond: a crisis message with an image, a
\* message with an emotion keyword, a message without any keyword with an
\* image, and a blank message without media
RespondArgs ==
  { << 1, Some(<< "image", "png" >>) >>, << 2, None >>,
    << 6, Some(<< "image", "png" >>) >>, << 8, None >> }

\* int(compound * 5) of the sentiment analyser for the messages of respond
RespondVader ==
  {4}

\* number of respond and clear_user_data requests in one run of the model
MaxRequests ==
  3

\* the user and the messages of a long conversation: a crisis message, a
\* message with a sad keyword, one with an angry keyword and one without any
\* keyword (neutral, or happy by the score of the sentiment analyser)
SessionUser ==
  "u1"

SessionMsgs ==
  {1, 2, 4, 6}

\* number of respond calls in one conversation
MaxSessionCalls ==
  6

\* word lists for the sentiment functions: words around a mood keyword
\* (a negation word, an intensity adverb, the two words of the modifier
\* "a bit") and words of the positive and negative lists in both cases
ContextVocabulary ==
  { <<"n","o","t">>, <<"v","e","r","y">>, <<"a">>, <<"b","i","t">>, <<"s","a","d">> }

ScoreVocabulary ==
  { <<"g","o","o","d">>, <<"G","r","e","a","t">>, <<"b","a","d">>, <<"d","a","y">> }

\* longest word list
MaxWords ==
  5

WordLists(vocabulary) ==
  UNION { [1..n -> vocabulary] : n \in 0..MaxWords }

SentimentWords ==
  WordLists(ContextVocabulary) \cup WordLists(ScoreVocabulary)

\* the text made of the words, one space between them
RECURSIVE join(_)
join(words) ==
  IF words = << >> THEN << >>
  ELSE IF Len(words) = 1 THEN words[1]
  ELSE words[1] \o << " " >> \o join(Tail(words))

\* the moods of the stored entries of a history; None is an entry without
\* the key 'mood'
EntryMoods ==
  { Some("sad"), Some("anxious"), Some("crisis"), Some("happy"), Some("neutral"),
    Some("angry"), None }

\* longest stored history of the insights
MaxEntries ==
  4

MoodLists ==
  UNION { [1..n -> EntryMoods] : n \in 0..MaxEntries }

\* the stores after an earlier run of the server in which respond saved n
\* messages of user u at the times 1..n
OldEntry(u, t) ==
  [user_id |-> u, msg |-> 2, mood |-> Some("sad"), sentiment_score |-> Some(0),
   timestamp |-> Some(t)]

RECURSIVE EarlierRun(_, _)
EarlierRun(u, n) ==
  IF n = 0
  THEN [files |-> [v \in Users |-> None], log |-> << >>]
  ELSE LET before == EarlierRun(u, n - 1)
           s == saveChat(before.files, before.log, u, OldEntry(u, n), n, TRUE)
       IN  [files |-> s.files, log |-> s.log]

\* the stores after saveChat has stored one entry for each mood of the list
\* for user u, at the times 1..Len(moods)
RECURSIVE StoredRun(_, _)
StoredRun(u, moods) ==
  IF moods = << >>
  THEN [files |-> [v \in Users |-> None], log |-> << >>]
  ELSE LET n == Len(moods)
           before == StoredRun(u, SubSeq(moods, 1, n - 1))
           s == saveChat(before.files, before.log, u,
                         [user_id |-> u, msg |-> 6, mood |-> moods[n],
                          sentiment_score |-> Some(0), timestamp |-> Some(n)],
                         n, TRUE)
       IN  [files |-> s.files, log |-> s.log]

(***************************************************************************)
(* State                                                                   *)
(***************************************************************************)
VARIABLES
  HAS_VADER,            \* moodDetection.py / mcp.py: vaderSentiment was imported
  moodRet,              \* the last call of a mood detector: arguments and result
  numpy_ok,             \* mcp_llm.py: `import numpy as np` succeeded
  sklearn_ok,           \* mcp_llm.py: sklearn and joblib were imported
  interactions,         \* SQLite table interactions, per user, in insertion order
  riskRet,              \* the last call of a risk function: arguments and result
  HAS_OLLAMA,           \* mcp_llm.py: `import ollama` succeeded
  crisis_interventions, \* SQLite table crisis_interventions, per user
  users,                \* SQLite table users: the user_ids that have a row
  llmRet,               \* the last tool call of mcp_llm.py: arguments and result
  calls,                \* number of tool calls made so far
  user_files,           \* cache/users/user_<md5>.json per user: None or its content
  global_log,           \* cache/global_chat_log.jsonl, in the order of the lines
  chat_log,             \* temp/chat_log.jsonl, in the order of the lines
  clock,                \* the reading datetime.now / utcnow gives next
  saved,                \* history: per user, the entries of the saves that
                        \* returned True since the user's data was last cleared
  cacheRet,             \* the last request, if a call of a cache function:
                        \* arguments and result
  user_sessions,        \* routes/respond.py: the module's user_sessions
  mcp_user_sessions,    \* routes/mcp.py: self.user_sessions of the server object
  respRet,              \* the last request, if a call of a respond handler:
                        \* arguments and result
  requests,             \* number of requests made so far
  sentRet,              \* the last call of a sentiment function of
                        \* moodDetection.py: arguments and result
  insRet,               \* the last call of getConversationInsights or
                        \* get_user_statistics: arguments and result
  chats                 \* the chat calls of mcp_llm.py in order of arrival:
                        \* position (suspended in run_in_executor, or done),
                        \* the locals held across the await, and the answer

HAS_ML ==
  numpy_ok /\ sklearn_ok

moodVars == << HAS_VADER, moodRet >>

riskVars == << numpy_ok, sklearn_ok, interactions, riskRet >>

llmVars == << HAS_OLLAMA, crisis_interventions, users, llmRet, calls, chats >>

chatVars == << user_files, global_log, chat_log, clock, saved, cacheRet,
               user_sessions, mcp_user_sessions, respRet, requests, insRet >>

vars == << HAS_VADER, moodRet, numpy_ok, sklearn_ok, interactions, riskRet,
           HAS_OLLAMA, crisis_interventions, users, llmRet, calls,
           user_files, global_log, chat_log, clock, saved, cacheRet,
           user_sessions, mcp_user_sessions, respRet, requests, sentRet, insRet,
           chats >>

NoMoodRet ==
  [fn |-> "none", msg |-> 0, vader |-> 0, mood |-> "neutral", score |-> Some(0)]

NoRiskRet ==
  [fn |-> "none", user |-> "u1", msg |-> 0, proba |-> 0, err |-> "none",
   score |-> 0, level |-> "none", intervention_type |-> "none",
   factors |-> << >>, recommendations |-> << >>, crisis |-> FALSE]

\* the state before any request, with every optional library present
IdleMood ==
  /\ HAS_VADER = TRUE
  /\ moodRet = NoMoodRet

IdleRisk ==
  /\ numpy_ok = TRUE
  /\ sklearn_ok = TRUE
  /\ interactions = [u \in Users |-> << >>]
  /\ riskRet = NoRiskRet

NoLlmRet ==
  [op |-> "none", user |-> "u1", msg |-> 0, success |-> FALSE] @@ AnalysisError("none")

IdleLlm ==
  /\ HAS_OLLAMA = TRUE
  /\ crisis_interventions = [u \in Users |-> << >>]
  /\ users = {}
  /\ llmRet = NoLlmRet
  /\ calls = 0
  /\ chats = << >>

NoCacheRet ==
  [op |-> "none", user |-> "u1", limit |-> None, ret |-> FALSE,
   result |-> << >>, metadata |-> None]

NoRespRet ==
  [fn |-> "none", user |-> "u1", msg |-> 0, media |-> None, err |-> "",
   mood |-> "neutral", score |-> None, reply_text |-> << >>, crisis |-> FALSE,
   follow_up_question |-> None, returns_follow_up |-> FALSE, saved |-> FALSE,
   history |-> << >>]

NoInsRet ==
  [fn |-> "none", user |-> "u1"] @@ NoInsights("none")

\* the stores and sessions of a fresh installation before any request
IdleChat ==
  /\ user_files = [u \in Users |-> None]
  /\ global_log = << >>
  /\ chat_log = << >>
  /\ clock = 10
  /\ saved = [u \in Users |-> << >>]
  /\ cacheRet = NoCacheRet
  /\ user_sessions = [u \in Users |-> None]
  /\ mcp_user_sessions = [u \in Users |-> None]
  /\ respRet = NoRespRet
  /\ requests = 0
  /\ insRet = NoInsRet

NoSentRet ==
  [fn |-> "none", words |-> << >>, target_index |-> 0, modifier |-> 0, score |-> 0,
   mood_scores |-> [sad |-> 0, anxious |-> 0, angry |-> 0, happy |-> 0],
   keyword_scores |-> {}]

IdleSent ==
  sentRet = NoSentRet

(***************************************************************************)
(* Specification of the mood detectors (pure functions applied to inputs)  *)
(***************************************************************************)
\* services/moodDetection.py detectMoodOffline(message)
CallDetectMoodOffline(m, v) ==
  /\ HAS_VADER \/ v = 0
  /\ \E r \in { detectMoodOffline(MsgArg(m), HAS_VADER, v) } :
       moodRet' = [fn |-> "detectMoodOffline", msg |-> m, vader |-> v, mood |-> r.mood, score |-> r.score]
  /\ UNCHANGED HAS_VADER
  /\ UNCHANGED riskVars
  /\ UNCHANGED llmVars
  /\ UNCHANGED chatVars
  /\ UNCHANGED sentRet

\* routes/mcp.py MentalHealthMCP.detect_mood_offline(message)
CallDetectMoodOfflineMCP(m, v) ==
  /\ HAS_VADER \/ v = 0
  /\ \E r \in { detect_mood_offline(MsgArg(m), HAS_VADER, v) } :
       moodRet' = [fn |-> "detect_mood_offline", msg |-> m, vader |-> v, mood |-> r.mood, score |-> r.score]
  /\ UNCHANGED HAS_VADER
  /\ UNCHANGED riskVars
  /\ UNCHANGED llmVars
  /\ UNCHANGED chatVars
  /\ UNCHANGED sentRet

InitMood ==
  /\ HAS_VADER \in BOOLEAN
  /\ moodRet = NoMoodRet
  /\ IdleRisk
  /\ IdleLlm
  /\ IdleChat
  /\ IdleSent

NextMood ==
  \/ \E m \in {0} \cup MsgIds, v \in VaderScores : CallDetectMoodOffline(m, v)
  \/ \E m \in {0} \cup MsgIds, v \in VaderScores : CallDetectMoodOfflineMCP(m, v)

SpecMood ==
  InitMood /\ [][NextMood]_vars

(***************************************************************************)
(* Specification of the risk functions of mcp_llm.py, applied to a stored  *)
(* history drawn at the start                                              *)
(***************************************************************************)
\* RiskPredictor().predict_risk(user_id), as _handle_risk_assessment calls it
CallPredictRisk(u, p) ==
  /\ HAS_ML \/ p = 0
  /\ \E r \in { predict_risk(interactions[u], numpy_ok, sklearn_ok, p) } :
         riskRet' = [fn |-> "predict_risk", user |-> u, msg |-> 0, proba |-> p,
                     crisis |-> FALSE] @@ r
  /\ UNCHANGED << numpy_ok, sklearn_ok, interactions >>
  /\ UNCHANGED moodVars
  /\ UNCHANGED llmVars
  /\ UNCHANGED chatVars
  /\ UNCHANGED sentRet

\* CrisisManager().assess_crisis_level(message, user_id)
CallAssessCrisisLevel(u, m, p) ==
  /\ HAS_ML \/ p = 0
  /\ \E r \in { assess_crisis_level(Corpus[m], interactions[u], numpy_ok, sklearn_ok, p) } :
         riskRet' = [fn |-> "assess_crisis_level", user |-> u, msg |-> m, proba |-> p,
                     err |-> r.err, score |-> r.final_score, crisis |-> r.crisis,
                     level |-> "none", intervention_type |-> "none",
                     factors |-> << r.risk_score >>, recommendations |-> << >>]
  /\ UNCHANGED << numpy_ok, sklearn_ok, interactions >>
  /\ UNCHANGED moodVars
  /\ UNCHANGED llmVars
  /\ UNCHANGED chatVars
  /\ UNCHANGED sentRet

InitRisk ==
  /\ numpy_ok \in BOOLEAN
  /\ sklearn_ok \in BOOLEAN
  /\ interactions \in [Users -> StoredHistories]
  /\ riskRet = NoRiskRet
  /\ IdleMood
  /\ IdleLlm
  /\ IdleChat
  /\ IdleSent

NextRisk ==
  \/ \E u \in Users, p \in RiskProbs : CallPredictRisk(u, p)
  \/ \E u \in Users, m \in MsgIds, p \in RiskProbs : CallAssessCrisisLevel(u, m, p)

SpecRisk ==
  InitRisk /\ [][NextRisk]_vars

(***************************************************************************)
(* Specification of the tools of mcp_llm.py over the SQLite tables         *)
(***************************************************************************)
\* the inputs a call does not read are fixed, so that equal calls are one step
ChatInputs(p, llm) ==
  /\ calls < MaxCalls
  /\ HAS_ML \/ p = 0
  /\ HAS_OLLAMA \/ llm = "no_json"

\* the tables after a chat handler has stored its interaction
StoreInteraction(u, m, an) ==
  /\ crisis_interventions' =
       IF an.intervention_triggered
       THEN [crisis_interventions EXCEPT ![u] = Append(@, InterventionRow(Val(an.crisis_score)))]
       ELSE crisis_interventions
  /\ interactions' = [interactions EXCEPT
                        ![u] = Append(@, InteractionRow(m, an.mood, an.risk_score))]

\* MentalHealthServer._handle_chat behind call_tool (tool chat_with_ai_therapist);
\* call_tool turns an exception into an {"error": ...} answer
HandleChat(u, m, p, llm) ==
  /\ ChatInputs(p, llm)
  /\ \E an \in { enhanced_llm_analyze(Corpus[m],
                                        get_user_context(interactions[u], u \in users),
                                        interactions[u],
                                        numpy_ok, sklearn_ok, HAS_OLLAMA, p, llm) } :
         /\ llmRet' = [op |-> "chat_with_ai_therapist", user |-> u, msg |-> m,
                       success |-> an.err = "none"] @@ an
         /\ IF an.err = "none"
            THEN StoreInteraction(u, m, an)
            ELSE UNCHANGED << interactions, crisis_interventions >>
  /\ calls' = calls + 1
  /\ UNCHANGED << HAS_OLLAMA, users, numpy_ok, sklearn_ok, riskRet >>
  /\ UNCHANGED moodVars
  /\ UNCHANGED chatVars
  /\ UNCHANGED sentRet
  /\ UNCHANGED chats

\* the FastMCP tool therapy_chat; an exception gives {"success": False, ...}
TherapyChat(u, m, p, llm) ==
  /\ ChatInputs(p, llm)
  /\ \E an \in { enhanced_llm_analyze(Corpus[m],
                                        get_user_context(interactions[u], u \in users),
                                        interactions[u],
                                        numpy_ok, sklearn_ok, HAS_OLLAMA, p, llm) } :
         /\ llmRet' = [op |-> "therapy_chat", user |-> u, msg |-> m,
                       success |-> an.err = "none"] @@ an
         /\ IF an.err = "none"
            THEN /\ StoreInteraction(u, m, an)
                 /\ users' = users \cup {u}
            ELSE UNCHANGED << interactions, crisis_interventions, users >>
  /\ calls' = calls + 1
  /\ UNCHANGED << HAS_OLLAMA, numpy_ok, sklearn_ok, riskRet >>
  /\ UNCHANGED moodVars
  /\ UNCHANGED chatVars
  /\ UNCHANGED sentRet
  /\ UNCHANGED chats

\* crisis_check that assesses and answers but records nothing
CrisisCheckNoRecord(u, m, p) ==
  /\ ChatInputs(p, "no_json")
  /\ \E a \in { assess_crisis_level(Corpus[m], interactions[u], numpy_ok, sklearn_ok, p) } :
     LET triggered == a.err = "none" /\ a.crisis
     IN  llmRet' = [op |-> "crisis_check", user |-> u, msg |-> m,
                    success |-> a.err = "none", err |-> a.err,
                    mood |-> None, crisis_detected |-> triggered,
                    crisis_score |-> IF a.err = "none" THEN Some(a.final_score) ELSE None,
                    intervention_triggered |-> triggered,
                    response |-> IF triggered THEN Some(generate_crisis_response) ELSE None,
                    risk_score |-> None, llm_called |-> FALSE, fallback |-> FALSE]
  /\ calls' = calls + 1
  /\ UNCHANGED << HAS_OLLAMA, users, interactions, numpy_ok, sklearn_ok, riskRet,
                  crisis_interventions >>
  /\ UNCHANGED moodVars
  /\ UNCHANGED chatVars
  /\ UNCHANGED sentRet
  /\ UNCHANGED chats

\* the FastMCP tool crisis_check; an exception gives {"error": ...}
CrisisCheck(u, m, p) ==
  /\ ChatInputs(p, "no_json")
  /\ \E a \in { assess_crisis_level(Corpus[m], interactions[u], numpy_ok, sklearn_ok, p) } :
     LET triggered == a.err = "none" /\ a.crisis
     IN  /\ llmRet' = [op |-> "crisis_check", user |-> u, msg |-> m,
                       success |-> a.err = "none", err |-> a.err,
                       mood |-> None, crisis_detected |-> triggered,
                       crisis_score |-> IF a.err = "none" THEN Some(a.final_score) ELSE None,
                       intervention_triggered |-> triggered,
                       response |-> IF triggered THEN Some(generate_crisis_response) ELSE None,
                       risk_score |-> None, llm_called |-> FALSE, fallback |-> FALSE]
         /\ crisis_interventions' =
              IF triggered
              THEN [crisis_interventions EXCEPT ![u] = Append(@, InterventionRow(a.final_score))]
              ELSE crisis_interventions
  /\ calls' = calls + 1
  /\ UNCHANGED << HAS_OLLAMA, users, interactions, numpy_ok, sklearn_ok, riskRet >>
  /\ UNCHANGED moodVars
  /\ UNCHANGED chatVars
  /\ UNCHANGED sentRet
  /\ UNCHANGED chats

InitLLM ==
  /\ numpy_ok \in BOOLEAN
  /\ sklearn_ok \in BOOLEAN
  /\ HAS_OLLAMA \in BOOLEAN
  /\ interactions = [u \in Users |-> << >>]
  /\ crisis_interventions = [u \in Users |-> << >>]
  /\ users = {}
  /\ riskRet = NoRiskRet
  /\ llmRet = NoLlmRet
  /\ calls = 0
  /\ IdleMood
  /\ IdleChat
  /\ IdleSent
  /\ chats = << >>

NextLLM ==
  \/ \E u \in Users, m \in ChatMsgs, p \in ChatProbs, llm \in LLMOutcomes :
       HandleChat(u, m, p, llm)
  \/ \E u \in Users, m \in ChatMsgs, p \in ChatProbs, llm \in LLMOutcomes :
       TherapyChat(u, m, p, llm)
  \/ \E u \in Users, m \in ChatMsgs, p \in ChatProbs : CrisisCheck(u, m, p)

SpecLLM ==
  InitLLM /\ [][NextLLM]_vars

(***************************************************************************)
(* Specification of concurrent chat calls.  The handlers are coroutines on *)
(* one event loop: a call runs without interruption from its arrival to    *)
(* the await of run_in_executor, and from its resumption to its return.    *)
(***************************************************************************)
\* a chat call: pc is "suspended" (ollama.generate runs in the executor) or
\* "done"; user_context and risk_score are the locals computed before the
\* await; an is the analysis, remembers_you the field of therapy_chat's answer
ChatCall(op, u, m, pc, user_context, risk_score, an) ==
  [op |-> op, user |-> u, msg |-> m, pc |-> pc, user_context |-> user_context,
   risk_score |-> risk_score,
   success |-> pc = "done" /\ an.err = "none",
   an |-> an,
   remembers_you |-> IF op = "therapy_chat" /\ pc = "done" /\ an.err = "none"
                     THEN Some(~user_context.is_new_user) ELSE None]

\* the INSERTs of a chat handler after the analysis; an exception of the
\* analysis leaves the handler before them
StoreChat(op, u, m, an) ==
  IF an.err = "none"
  THEN /\ StoreInteraction(u, m, an)
       /\ users' = IF op = "therapy_chat" THEN users \cup {u} ELSE users
  ELSE UNCHANGED << interactions, crisis_interventions, users >>

\* a call of _handle_chat or therapy_chat arrives and runs to its first
\* suspension, or to its end when it never suspends
StartChat(op, u, m, p) ==
  /\ Len(chats) < MaxChats
  /\ HAS_ML \/ p = 0
  /\ \E user_context \in { get_user_context(interactions[u], u \in users) } :
       IF Suspends(Corpus[m], interactions[u], numpy_ok, sklearn_ok, HAS_OLLAMA, p)
       THEN /\ chats' = Append(chats,
                           ChatCall(op, u, m, "suspended", user_context,
                                    Some(predict_risk(interactions[u], numpy_ok,
                                                      sklearn_ok, p).score),
                                    AnalysisError("none")))
            /\ UNCHANGED << interactions, crisis_interventions, users >>
       ELSE \E an \in { enhanced_llm_analyze(Corpus[m], user_context, interactions[u],
                                             numpy_ok, sklearn_ok, HAS_OLLAMA, p,
                                             "no_json") } :
              /\ chats' = Append(chats, ChatCall(op, u, m, "done", user_context, None, an))
              /\ StoreChat(op, u, m, an)
  /\ UNCHANGED << HAS_OLLAMA, numpy_ok, sklearn_ok, riskRet, llmRet, calls >>
  /\ UNCHANGED moodVars
  /\ UNCHANGED chatVars
  /\ UNCHANGED sentRet

\* the resumption that reads the user context again
ResumeChatFreshContext(c, llm, p) ==
  /\ c \in 1..Len(chats)
  /\ chats[c].pc = "suspended"
  /\ HAS_ML \/ p = 0
  /\ LET call == chats[c]
         user_context == get_user_context(interactions[call.user], call.user \in users)
     IN  \E an \in { ResumedAnalysis(Corpus[call.msg], user_context,
                                      Val(call.risk_score), interactions[call.user],
                                      numpy_ok, sklearn_ok, p, llm) } :
           /\ chats' = [chats EXCEPT ![c] = ChatCall(call.op, call.user, call.msg, "done",
                                                     user_context, call.risk_score, an)]
           /\ StoreChat(call.op, call.user, call.msg, an)
  /\ UNCHANGED << HAS_OLLAMA, numpy_ok, sklearn_ok, riskRet, llmRet, calls >>
  /\ UNCHANGED moodVars
  /\ UNCHANGED chatVars
  /\ UNCHANGED sentRet

\* ollama.generate of call c has returned or raised in the executor: the call
\* resumes and runs to its end
ResumeChat(c, llm, p) ==
  /\ c \in 1..Len(chats)
  /\ chats[c].pc = "suspended"
  /\ HAS_ML \/ p = 0
  /\ LET call == chats[c]
     IN  \E an \in { ResumedAnalysis(Corpus[call.msg], call.user_context,
                                      Val(call.risk_score), interactions[call.user],
                                      numpy_ok, sklearn_ok, p, llm) } :
           /\ chats' = [chats EXCEPT ![c] = ChatCall(call.op, call.user, call.msg, "done",
                                                     call.user_context, call.risk_score, an)]
           /\ StoreChat(call.op, call.user, call.msg, an)
  /\ UNCHANGED << HAS_OLLAMA, numpy_ok, sklearn_ok, riskRet, llmRet, calls >>
  /\ UNCHANGED moodVars
  /\ UNCHANGED chatVars
  /\ UNCHANGED sentRet

NextConcurrent ==
  \/ \E op \in ChatTools, u \in ChatUsers, m \in ConcurrentMsgs, p \in ChatProbs :
       StartChat(op, u, m, p)
  \/ \E c \in 1..MaxChats, llm \in LLMOutcomes, p \in ChatProbs : ResumeChat(c, llm, p)

SpecConcurrent ==
  InitLLM /\ [][NextConcurrent]_vars

(***************************************************************************)
(* Specification of the offline cache service, called directly             *)
(***************************************************************************)
\* saveChat(u, e)
SaveChat(u, e, io_ok) ==
  /\ requests < MaxCacheCalls
  /\ \E s \in { saveChat(user_files, global_log, u, e, clock, io_ok) } :
       /\ user_files' = s.files
       /\ global_log' = s.log
       /\ saved' = IF s.ret THEN [saved EXCEPT ![u] = Append(@, WithTimestamp(e, clock))]
                   ELSE saved
       /\ cacheRet' = [NoCacheRet EXCEPT !.op = "saveChat", !.user = u, !.ret = s.ret]
  /\ clock' = clock + 1
  /\ requests' = requests + 1
  /\ UNCHANGED << chat_log, user_sessions, mcp_user_sessions, respRet >>
  /\ UNCHANGED << moodVars, riskVars, llmVars >>
  /\ UNCHANGED sentRet
  /\ UNCHANGED insRet

\* getChatHistory(u, limit)
GetChatHistory(u, limit) ==
  /\ cacheRet' = [NoCacheRet EXCEPT !.op = "getChatHistory", !.user = u,
                                    !.limit = limit, !.ret = TRUE,
                                    !.result = getChatHistory(user_files, u, limit)]
  /\ UNCHANGED << user_files, global_log, chat_log, clock, saved, requests,
                  user_sessions, mcp_user_sessions, respRet >>
  /\ UNCHANGED << moodVars, riskVars, llmVars >>
  /\ UNCHANGED sentRet
  /\ UNCHANGED insRet

\* getUserMetadata(u)
GetUserMetadata(u) ==
  /\ cacheRet' = [NoCacheRet EXCEPT !.op = "getUserMetadata", !.user = u,
                                    !.ret = TRUE,
                                    !.metadata = getUserMetadata(user_files, u)]
  /\ UNCHANGED << user_files, global_log, chat_log, clock, saved, requests,
                  user_sessions, mcp_user_sessions, respRet >>
  /\ UNCHANGED << moodVars, riskVars, llmVars >>
  /\ UNCHANGED sentRet
  /\ UNCHANGED insRet

\* clearUserData(u)
ClearUserData(u) ==
  /\ requests < MaxCacheCalls
  /\ \E c \in { clearUserData(user_files, u) } :
       /\ user_files' = c.files
       /\ cacheRet' = [NoCacheRet EXCEPT !.op = "clearUserData", !.user = u, !.ret = c.ret]
  /\ saved' = [saved EXCEPT ![u] = << >>]
  /\ clock' = clock + 1
  /\ requests' = requests + 1
  /\ UNCHANGED << global_log, chat_log, user_sessions, mcp_user_sessions, respRet >>
  /\ UNCHANGED << moodVars, riskVars, llmVars >>
  /\ UNCHANGED sentRet
  /\ UNCHANGED insRet

InitCache ==
  /\ IdleChat
  /\ IdleMood
  /\ IdleRisk
  /\ IdleLlm
  /\ IdleSent

NextCache ==
  \/ \E u \in Users : \E e \in CacheEntries(u) : \E io_ok \in BOOLEAN : SaveChat(u, e, io_ok)
  \/ \E u \in Users, limit \in Limits : GetChatHistory(u, limit)
  \/ \E u \in Users : GetUserMetadata(u)
  \/ \E u \in Users : ClearUserData(u)

SpecCache ==
  InitCache /\ [][NextCache]_vars

(***************************************************************************)
(* Specification of the two respond handlers: respond of routes/respond.py *)
(* on the offline cache service and the module's user_sessions, and        *)
(* MentalHealthMCP.respond of routes/mcp.py on the same cache directory    *)
(* and the sessions of one server object                                   *)
(***************************************************************************)
\* the ValueError raised only after the request was written to the chat log
RespondValueErrorAfterLog(fn, u, m, media) ==
  /\ respRet' = [NoRespRet EXCEPT !.fn = fn, !.user = u, !.msg = m, !.media = media,
                                  !.err = "ValueError"]
  /\ chat_log' = Append(chat_log, [user_id |-> u, msg |-> m, mood |-> "neutral"])
  /\ UNCHANGED << user_files, global_log, saved, user_sessions, mcp_user_sessions >>

\* ValueError("message_text or media is required"): raised before any effect
RespondValueError(fn, u, m, media) ==
  /\ respRet' = [NoRespRet EXCEPT !.fn = fn, !.user = u, !.msg = m, !.media = media,
                                  !.err = "ValueError"]
  /\ UNCHANGED << user_files, global_log, chat_log, saved, user_sessions,
                  mcp_user_sessions >>

\* respond(user_id, message_text, media) of routes/respond.py
RespondCall(u, m, media, v) ==
  /\ IF HAS_VADER THEN v \in RespondVader ELSE v = 0
  /\ LET message_text == strip(Corpus[m])
     IN  IF message_text = << >> /\ IsNone(media)
         THEN RespondValueError("respond", u, m, media)
         ELSE \E md \in { detectMoodOffline(Some(message_text), HAS_VADER, v) } :
              LET chat_entry == [user_id |-> u, msg |-> m, mood |-> Some(md.mood),
                                 sentiment_score |-> md.score, timestamp |-> Some(clock)]
                  s == saveChat(user_files, global_log, u, chat_entry, clock, TRUE)
                  history == LastN(getChatHistory(s.files, u, None), MAX_HISTORY)
                  c == ComposeReply(md.mood, md.score, user_sessions, u, media, history)
              IN  /\ user_files' = s.files
                  /\ global_log' = s.log
                  /\ saved' = IF s.ret THEN [saved EXCEPT ![u] = Append(@, chat_entry)]
                              ELSE saved
                  /\ user_sessions' = update_session(user_sessions, u, md.mood, m,
                                                     c.follow_up_question)
                  /\ chat_log' = Append(chat_log, [user_id |-> u, msg |-> m,
                                                   mood |-> md.mood])
                  /\ respRet' = [NoRespRet EXCEPT
                                   !.fn = "respond", !.user = u, !.msg = m,
                                   !.media = media, !.mood = md.mood,
                                   !.score = md.score, !.reply_text = c.reply_text,
                                   !.crisis = (md.mood = "crisis"),
                                   !.follow_up_question = c.follow_up_question,
                                   !.saved = s.ret, !.history = history]
                  /\ UNCHANGED mcp_user_sessions
  /\ clock' = clock + 1
  /\ requests' = requests + 1
  /\ cacheRet' = NoCacheRet
  /\ UNCHANGED << HAS_VADER, moodRet, riskVars, llmVars >>
  /\ UNCHANGED sentRet
  /\ UNCHANGED insRet

Respond(u, m, media, v) ==
  /\ requests < MaxRequests
  /\ RespondCall(u, m, media, v)

\* MentalHealthMCP.respond(args)
McpRespondCall(u, m, media, v) ==
  /\ IF HAS_VADER THEN v \in RespondVader ELSE v = 0
  /\ LET message_text == strip(Corpus[m])
     IN  IF message_text = << >> /\ IsNone(media)
         THEN RespondValueError("mcp.respond", u, m, media)
         ELSE \E md \in { detect_mood_offline(Some(message_text), HAS_VADER, v) } :
              LET chat_entry == [user_id |-> u, msg |-> m, mood |-> Some(md.mood),
                                 sentiment_score |-> md.score, timestamp |-> Some(clock)]
                  s == save_chat(user_files, global_log, u, chat_entry, clock)
                  history == get_chat_history(s.files, u, Some(MAX_HISTORY))
                  c == ComposeReply(md.mood, md.score, mcp_user_sessions, u, media, history)
              IN  /\ user_files' = s.files
                  /\ global_log' = s.log
                  /\ saved' = IF s.ret THEN [saved EXCEPT ![u] = Append(@, chat_entry)]
                              ELSE saved
                  /\ mcp_user_sessions' = update_session(mcp_user_sessions, u, md.mood, m,
                                                         c.follow_up_question)
                  /\ chat_log' = IF async_with(to_thread_open) = "TypeError" THEN chat_log
                                 ELSE Append(chat_log, [user_id |-> u, msg |-> m,
                                                        mood |-> md.mood])
                  /\ respRet' = [NoRespRet EXCEPT
                                   !.fn = "mcp.respond", !.user = u, !.msg = m,
                                   !.media = media, !.mood = md.mood,
                                   !.score = md.score, !.reply_text = c.reply_text,
                                   !.crisis = (md.mood = "crisis"),
                                   !.follow_up_question = c.follow_up_question,
                                   !.returns_follow_up = TRUE,
                                   !.saved = s.ret, !.history = history]
                  /\ UNCHANGED user_sessions
  /\ clock' = clock + 1
  /\ requests' = requests + 1
  /\ cacheRet' = NoCacheRet
  /\ UNCHANGED << HAS_VADER, moodRet, riskVars, llmVars >>
  /\ UNCHANGED sentRet
  /\ UNCHANGED insRet

McpRespond(u, m, media, v) ==
  /\ requests < MaxRequests
  /\ McpRespondCall(u, m, media, v)

\* MentalHealthMCP.get_chat_history(u, limit)
McpGetChatHistory(u, limit) ==
  /\ cacheRet' = [NoCacheRet EXCEPT !.op = "get_chat_history", !.user = u,
                                    !.limit = limit, !.ret = TRUE,
                                    !.result = get_chat_history(user_files, u, limit)]
  /\ respRet' = NoRespRet
  /\ UNCHANGED << user_files, global_log, chat_log, clock, saved, requests,
                  user_sessions, mcp_user_sessions >>
  /\ UNCHANGED << moodVars, riskVars, llmVars >>
  /\ UNCHANGED sentRet
  /\ UNCHANGED insRet

\* MentalHealthMCP.clear_user_data(u)
McpClearUserData(u) ==
  /\ requests < MaxRequests
  /\ \E c \in { clear_user_data(user_files, mcp_user_sessions, u) } :
       /\ user_files' = c.files
       /\ mcp_user_sessions' = c.sessions
       /\ cacheRet' = [NoCacheRet EXCEPT !.op = "clear_user_data", !.user = u, !.ret = c.ret]
  /\ saved' = [saved EXCEPT ![u] = << >>]
  /\ clock' = clock + 1
  /\ requests' = requests + 1
  /\ respRet' = NoRespRet
  /\ UNCHANGED << global_log, chat_log, user_sessions >>
  /\ UNCHANGED << moodVars, riskVars, llmVars >>
  /\ UNCHANGED sentRet
  /\ UNCHANGED insRet

\* the server starts on a fresh cache directory or on the files of an earlier
\* run; sessions are in memory and start empty
InitRespond ==
  /\ HAS_VADER \in BOOLEAN
  /\ moodRet = NoMoodRet
  /\ \E n \in {0, MAX_HISTORY - 1} :
       /\ user_files = EarlierRun("u1", n).files
       /\ global_log = EarlierRun("u1", n).log
       /\ saved = [u \in Users |-> getChatHistory(EarlierRun("u1", n).files, u, None)]
  /\ chat_log = << >>
  /\ clock = 10
  /\ cacheRet = NoCacheRet
  /\ user_sessions = [u \in Users |-> None]
  /\ mcp_user_sessions = [u \in Users |-> None]
  /\ respRet = NoRespRet
  /\ requests = 0
  /\ IdleRisk
  /\ IdleLlm
  /\ IdleSent
  /\ insRet = NoInsRet

NextRespond ==
  \/ \E u \in Users, a \in RespondArgs, v \in {0} \cup RespondVader : Respond(u, a[1], a[2], v)
  \/ \E u \in Users, a \in RespondArgs, v \in {0} \cup RespondVader : McpRespond(u, a[1], a[2], v)
  \/ \E u \in Users : McpGetChatHistory(u, None)
  \/ \E u \in Users : McpClearUserData(u)

SpecRespond ==
  InitRespond /\ [][NextRespond]_vars

(***************************************************************************)
(* A long conversation of one user with one of the two handlers            *)
(***************************************************************************)
SessionRespond(m, v) ==
  /\ requests < MaxSessionCalls
  /\ IsNone(mcp_user_sessions[SessionUser])
  /\ RespondCall(SessionUser, m, None, v)

SessionMcpRespond(m, v) ==
  /\ requests < MaxSessionCalls
  /\ IsNone(user_sessions[SessionUser])
  /\ McpRespondCall(SessionUser, m, None, v)

NextSession ==
  \/ \E m \in SessionMsgs, v \in {0} \cup RespondVader : SessionRespond(m, v)
  \/ \E m \in SessionMsgs, v \in {0} \cup RespondVader : SessionMcpRespond(m, v)

SpecSession ==
  InitRespond /\ [][NextSession]_vars

(***************************************************************************)
(* Specification of the sentiment functions (pure functions applied to     *)
(* inputs)                                                                 *)
(***************************************************************************)
\* services/moodDetection.py _simple_sentiment_score(text)
CallSimpleSentimentScore ==
  /\ sentRet.fn = "none"
  /\ sentRet' = [sentRet EXCEPT !.fn = "_simple_sentiment_score",
                                !.score = simple_sentiment_score(join(sentRet.words))]
  /\ UNCHANGED << moodVars, riskVars, llmVars, chatVars >>

\* routes/mcp.py MentalHealthMCP._simple_sentiment_score(text)
CallSimpleSentimentScoreMCP ==
  /\ sentRet.fn = "none"
  /\ sentRet' = [sentRet EXCEPT !.fn = "MentalHealthMCP._simple_sentiment_score",
                                !.score = simple_sentiment_score(join(sentRet.words))]
  /\ UNCHANGED << moodVars, riskVars, llmVars, chatVars >>

\* analyze_sentiment_context(words, target_index) for an index of the list
CallAnalyzeSentimentContext(target_index) ==
  /\ sentRet.fn = "none"
  /\ target_index < Len(sentRet.words)
  /\ sentRet' = [sentRet EXCEPT !.fn = "analyze_sentiment_context",
                                !.target_index = target_index,
                                !.modifier = analyze_sentiment_context(sentRet.words,
                                                                       target_index)]
  /\ UNCHANGED << moodVars, riskVars, llmVars, chatVars >>

\* calculate_mood_scores(text)
CallCalculateMoodScores ==
  /\ sentRet.fn = "none"
  /\ sentRet' = [sentRet EXCEPT !.fn = "calculate_mood_scores",
                                !.mood_scores = calculate_mood_scores(join(sentRet.words)),
                                !.keyword_scores = KeywordScores(split(join(sentRet.words)))]
  /\ UNCHANGED << moodVars, riskVars, llmVars, chatVars >>

NextSentiment ==
  \/ CallSimpleSentimentScore
  \/ CallSimpleSentimentScoreMCP
  \/ \E target_index \in 0..(MaxWords - 1) : CallAnalyzeSentimentContext(target_index)
  \/ CallCalculateMoodScores

InitSentiment ==
  /\ sentRet \in { [NoSentRet EXCEPT !.words = words] : words \in SentimentWords }
  /\ IdleMood
  /\ IdleRisk
  /\ IdleLlm
  /\ IdleChat

SpecSentiment ==
  InitSentiment /\ [][NextSentiment]_vars

(***************************************************************************)
(* Specification of the insights and statistics (functions of a stored     *)
(* history)                                                                *)
(***************************************************************************)
\* getConversationInsights on the stored chat history of user u
CallGetConversationInsights(u) ==
  /\ insRet.fn = "none"
  /\ insRet' = [fn |-> "getConversationInsights", user |-> u]
                @@ getConversationInsights(load_user_data(user_files, u).chat_history)
  /\ UNCHANGED << user_files, global_log, chat_log, clock, saved, cacheRet,
                  user_sessions, mcp_user_sessions, respRet, requests >>
  /\ UNCHANGED << moodVars, riskVars, llmVars, sentRet >>

\* MentalHealthMCP.get_user_statistics(u) (tool get_user_stats)
CallGetUserStatistics(u) ==
  /\ insRet.fn = "none"
  /\ insRet' = [fn |-> "get_user_statistics", user |-> u]
                @@ get_user_statistics(user_files, u)
  /\ UNCHANGED << user_files, global_log, chat_log, clock, saved, cacheRet,
                  user_sessions, mcp_user_sessions, respRet, requests >>
  /\ UNCHANGED << moodVars, riskVars, llmVars, sentRet >>

\* the cache directory holds the history of an earlier conversation of u1
InitInsights ==
  /\ \E moods \in MoodLists :
       /\ user_files = StoredRun("u1", moods).files
       /\ global_log = StoredRun("u1", moods).log
       /\ saved = [u \in Users |-> getChatHistory(StoredRun("u1", moods).files, u, None)]
  /\ chat_log = << >>
  /\ clock = 10
  /\ cacheRet = NoCacheRet
  /\ user_sessions = [u \in Users |-> None]
  /\ mcp_user_sessions = [u \in Users |-> None]
  /\ respRet = NoRespRet
  /\ requests = 0
  /\ insRet = NoInsRet
  /\ IdleMood
  /\ IdleRisk
  /\ IdleLlm
  /\ IdleSent

NextInsights ==
  \/ \E u \in Users : CallGetConversationInsights(u)
  \/ \E u \in Users : CallGetUserStatistics(u)

SpecInsights ==
  InitInsights /\ [][NextInsights]_vars

(***************************************************************************)
(* Claims                                                                  *)
(***************************************************************************)
\* the lowercased message of the last mood-detector call contains one of kws
LastMoodMsgHas(kws) ==
  /\ moodRet.msg # 0
  /\ \E k \in 1..Len(kws) : Contains(kws[k], lower(Corpus[moodRet.msg]))

\* C2: detectMoodOffline (and MentalHealthMCP.detect_mood_offline) returns
\* mood 'crisis' exactly when the lowercased message contains an entry of its
\* CRISIS_KEYWORDS as a substring, and then the score is None; emotion
\* keywords and the sentiment score in the same message do not change that.
C2_CrisisIffCrisisKeyword ==
  /\ moodRet.fn = "detectMoodOffline" =>
       /\ (moodRet.mood = "crisis") <=> LastMoodMsgHas(CRISIS_KEYWORDS)
       /\ (moodRet.mood = "crisis") <=> (moodRet.score = None)
  /\ moodRet.fn = "detect_mood_offline" =>
       /\ (moodRet.mood = "crisis") <=> LastMoodMsgHas(MCP_CRISIS_KEYWORDS)
       /\ (moodRet.mood = "crisis") <=> (moodRet.score = None)

\* a crisis result for a message that also holds an emotion keyword, with a
\* strongly positive VADER score
C2_Witness ==
  /\ moodRet.fn = "detectMoodOffline"
  /\ moodRet.mood = "crisis"
  /\ LastMoodMsgHas(EK_sad)
  /\ HAS_VADER /\ moodRet.vader = 5

\* the message of the last tool call of mcp_llm.py contains a keyword of an
\* 'immediate_danger' or 'self_harm' pattern (weight >= 0.9)
LastChatMsgIsImmediate ==
  /\ llmRet.msg # 0
  /\ \/ includes_any(lower(Corpus[llmRet.msg]), KW_immediate_danger)
     \/ includes_any(lower(Corpus[llmRet.msg]), KW_self_harm)

\* C1 as claimed: whatever the user's stored history, a message holding an
\* immediate_danger or self_harm keyword that enhanced_llm_analyze processes
\* yields the crisis result (crisis_detected, intervention_triggered, mood
\* 'crisis', the hotline response) and never an error or another reply.
\* (numpy_ok: without numpy the module defining enhanced_llm_analyze does not
\* load, so no message is processed by it.)
C1_ImmediateKeywordYieldsCrisis ==
  (/\ llmRet.op \in {"chat_with_ai_therapist", "therapy_chat"}
   /\ numpy_ok
   /\ LastChatMsgIsImmediate) =>
    /\ llmRet.err = "none"
    /\ llmRet.crisis_detected
    /\ llmRet.intervention_triggered
    /\ llmRet.mood = Some("crisis")
    /\ llmRet.response = Some(generate_crisis_response)

\* the pattern weights (tenths) of the CRISIS_PATTERNS keywords contained in
\* the lowercased message of the last risk call, one element per keyword found
MatchedWeights ==
  LET txt == lower(Corpus[riskRet.msg])
      pairs == {<<p, k>> \in (1..Len(CRISIS_PATTERNS)) \X (1..5) :
                  /\ k <= Len(CRISIS_PATTERNS[p].keywords)
                  /\ Contains(CRISIS_PATTERNS[p].keywords[k], txt)}
  IN  [pk \in pairs |-> CRISIS_PATTERNS[pk[1]].weight]

RECURSIVE SumFun(_)
SumFun(f) ==
  IF DOMAIN f = {} THEN 0
  ELSE LET x == CHOOSE x \in DOMAIN f : TRUE
       IN  f[x] + SumFun([y \in DOMAIN f \ {x} |-> f[y]])

\* C4: when assess_crisis_level returns, final_score is
\* min(1.0, 0.6 * S + 0.4 * R) with S the sum of the weights of the keywords
\* found and R the predicted risk score; it lies in [0, 1]; the crisis flag is
\* true exactly when a keyword of weight >= 0.9 was found or final_score >= 0.8.
\* (thousandths: S in tenths times 60, R in hundredths times 4)
C4_FinalScoreFormula ==
  (riskRet.fn = "assess_crisis_level" /\ riskRet.err = "none") =>
    LET S == SumFun(MatchedWeights)
        R == riskRet.factors[1]
        exact == 60 * S + 4 * R
    IN  /\ riskRet.score = (IF exact > 1000 THEN 1000 ELSE exact)
        /\ riskRet.score >= 0 /\ riskRet.score <= 1000
        /\ riskRet.crisis <=>
             \/ \E pk \in DOMAIN MatchedWeights : MatchedWeights[pk] >= 9
             \/ riskRet.score >= 800

\* a message with one despair keyword only (S = 0.7) and R = 1.0: the flag is
\* raised by the score alone, 0.42 + 0.40 = 0.82
C4_Witness ==
  /\ riskRet.fn = "assess_crisis_level" /\ riskRet.err = "none"
  /\ SumFun(MatchedWeights) = 7
  /\ riskRet.score = 820
  /\ riskRet.crisis

\* a message whose uncapped score exceeds 1.0
C4_WitnessCapped ==
  /\ riskRet.fn = "assess_crisis_level" /\ riskRet.err = "none"
  /\ 60 * SumFun(MatchedWeights) + 4 * riskRet.factors[1] > 1000
  /\ riskRet.score = 1000

\* C5: when predict_risk returns, p >= 0.8 gives CRITICAL with EMERGENCY,
\* 0.6 <= p < 0.8 HIGH with PROFESSIONAL, 0.4 <= p < 0.6 MODERATE with
\* PEER_SUPPORT, p < 0.4 LOW with SELF_HELP, and the recommendations are those
\* of the level.
C5_RiskTiers ==
  (riskRet.fn = "predict_risk" /\ riskRet.err = "none") =>
    LET p == riskRet.score
    IN  /\ p >= 80 =>
             riskRet.level = "critical" /\ riskRet.intervention_type = "emergency"
        /\ (p >= 60 /\ p < 80) =>
             riskRet.level = "high" /\ riskRet.intervention_type = "professional"
        /\ (p >= 40 /\ p < 60) =>
             riskRet.level = "moderate" /\ riskRet.intervention_type = "peer_support"
        /\ p < 40 =>
             riskRet.level = "low" /\ riskRet.intervention_type = "self_help"
        /\ riskRet.recommendations = generate_recommendations(riskRet.level)
        /\ riskRet.recommendations[1] =
             (CASE riskRet.level = "critical" -> "Immediate professional intervention required"
                [] riskRet.level = "high" -> "Schedule urgent appointment with mental health professional"
                [] riskRet.level = "moderate" -> "Regular therapy sessions recommended"
                [] riskRet.level = "low" -> "Continue self-care practices")

\* the classifier answers exactly 0.6: HIGH with PROFESSIONAL
C5_Witness ==
  /\ riskRet.fn = "predict_risk" /\ riskRet.err = "none"
  /\ HAS_ML /\ riskRet.score = 60
  /\ riskRet.level = "high" /\ riskRet.intervention_type = "professional"

\* C6 as claimed: with HAS_ML false predict_risk returns a RiskAssessment
\* whose score is the mean of the four features; a user without stored
\* interactions gets features 0.5, score 0.5 and level MODERATE.
C6_FallbackReturnsMean ==
  (riskRet.fn = "predict_risk" /\ ~HAS_ML) =>
    /\ riskRet.err = "none"
    /\ Len(riskRet.factors) = 4
    /\ 4 * riskRet.score = SumSeq(riskRet.factors)
    /\ interactions[riskRet.user] = << >> =>
         /\ riskRet.factors = <<50, 50, 50, 50>>
         /\ riskRet.score = 50
         /\ riskRet.level = "moderate"

\* the entries of s equal to e
CountEntry(s, e) ==
  Cardinality({i \in 1..Len(s) : s[i] = e})

\* s and t hold the same entries the same number of times
SameEntries(s, t) ==
  /\ Len(s) = Len(t)
  /\ \A i \in 1..Len(s) : CountEntry(s, s[i]) = CountEntry(t, s[i])

SortedByTimestamp(s) ==
  \A i \in 1..Len(s) : \A j \in i..Len(s) :
    Val(s[i].timestamp) <= Val(s[j].timestamp)

\* C9: getChatHistory(user_id, limit) returns the entries of the user sorted
\* by timestamp, oldest first; for a non-negative integer limit it returns at
\* most limit entries, the most recent ones, and with limit None the whole
\* history.
C9_LimitBoundsResult ==
  cacheRet.op = "getChatHistory" =>
    LET whole == getChatHistory(user_files, cacheRet.user, None)
        n == Len(whole)
    IN  /\ SortedByTimestamp(cacheRet.result)
        /\ IsNone(cacheRet.limit) =>
             SameEntries(cacheRet.result, load_user_data(user_files, cacheRet.user).chat_history)
        /\ ~IsNone(cacheRet.limit) =>
             /\ Len(cacheRet.result) <= Val(cacheRet.limit)
             /\ Len(cacheRet.result) = Min(n, Val(cacheRet.limit))
             /\ \A i \in 1..Len(cacheRet.result) :
                  cacheRet.result[i] = whole[n - Len(cacheRet.result) + i]

\* C10: after clearUserData(u) has returned True, getChatHistory(u) is empty,
\* the metadata of u is empty, u has no session in memory, and neither the
\* file of u nor the global chat log holds a chat entry of u.
C10_ClearRemovesAllData ==
  (cacheRet.op = "clearUserData" /\ cacheRet.ret) =>
    /\ getChatHistory(user_files, cacheRet.user, None) = << >>
    /\ IsNone(getUserMetadata(user_files, cacheRet.user))
    /\ IsNone(user_files[cacheRet.user])
    /\ IsNone(user_sessions[cacheRet.user])
    /\ \A i \in 1..Len(global_log) : global_log[i].user_id_hash # md5(cacheRet.user)

\* the last request was a respond call that returned a reply
RespondReturned ==
  /\ respRet.fn \in {"respond", "mcp.respond"}
  /\ respRet.err = ""

\* the session of the user of the last respond call, in the sessions of the
\* handler that served it
SessionOfLastRespond ==
  IF respRet.fn = "respond" THEN user_sessions[respRet.user]
  ELSE mcp_user_sessions[respRet.user]

\* C3: when respond (routes/respond.py or MentalHealthMCP) detects the mood
\* 'crisis', the reply begins with the helpline template and holds no
\* adaptive reply, no remark on the previous mood, no follow-up question and
\* no media acknowledgement; follow_up_question is None and None is stored as
\* the last_question of the session; the 'crisis' field is true.  For every
\* other mood the 'crisis' field is false.
C3_CrisisReplyIsTemplate ==
  RespondReturned =>
    /\ respRet.mood = "crisis" =>
         /\ respRet.reply_text # << >>
         /\ respRet.reply_text[1] = Part("template", reply_templates_crisis)
         /\ \A i \in 1..Len(respRet.reply_text) :
              respRet.reply_text[i].kind \notin {"adaptive", "last_mood", "follow_up", "media"}
         /\ IsNone(respRet.follow_up_question)
         /\ ~IsNone(SessionOfLastRespond)
         /\ IsNone(Val(SessionOfLastRespond).last_question)
         /\ respRet.crisis
    /\ respRet.mood # "crisis" => ~respRet.crisis

\* respond has answered a crisis message that came with an image, from a user
\* whose session held two earlier messages of other moods
C3_Witness ==
  /\ RespondReturned
  /\ respRet.mood = "crisis"
  /\ ~IsNone(respRet.media)
  /\ Len(Val(SessionOfLastRespond).history) = 3
  /\ Val(SessionOfLastRespond).history[1].mood # "crisis"
  /\ Val(SessionOfLastRespond).history[2].mood # "crisis"

\* respond of routes/respond.py has answered a crisis message with the
\* template followed by the summary of a history of MAX_HISTORY entries
C3_WitnessSummary ==
  /\ respRet.fn = "respond"
  /\ respRet.err = ""
  /\ respRet.mood = "crisis"
  /\ Len(respRet.reply_text) = 2
  /\ Len(respRet.history) = MAX_HISTORY

\* C8: a call of MentalHealthMCP.respond that returns normally for user u has
\* saved its chat entry: get_chat_history(u) then holds an entry for the
\* message of the call.
C8_McpRespondPersists ==
  (respRet.fn = "mcp.respond" /\ respRet.err = "") =>
    \E i \in 1..Len(get_chat_history(user_files, respRet.user, None)) :
      /\ get_chat_history(user_files, respRet.user, None)[i].msg = respRet.msg
      /\ get_chat_history(user_files, respRet.user, None)[i].user_id = respRet.user

\* C11: respond (routes/respond.py and MentalHealthMCP) called with a
\* message_text that is empty or only whitespace and with no media raises
\* ValueError before any effect: the per-user files, the global chat log, the
\* temp chat log and the sessions of both handlers are as before the call.
C11_BlankMessageHasNoEffect ==
  [][ ( /\ requests' # requests
        /\ respRet'.fn \in {"respond", "mcp.respond"}
        /\ strip(Corpus[respRet'.msg]) = << >>
        /\ IsNone(respRet'.media) )
      => ( /\ respRet'.err = "ValueError"
           /\ UNCHANGED << user_files, global_log, chat_log, user_sessions,
                           mcp_user_sessions >> ) ]_vars

\* a blank message without media was refused for a user who has a stored
\* history, a session with a pending follow-up question and lines in the log
C11_Witness ==
  /\ respRet.fn \in {"respond", "mcp.respond"}
  /\ respRet.err = "ValueError"
  /\ strip(Corpus[respRet.msg]) = << >>
  /\ chat_log # << >>
  /\ ~IsNone(user_files[respRet.user])
  /\ ~IsNone(user_sessions[respRet.user])
  /\ ~IsNone(Val(user_sessions[respRet.user]).last_question)

\* the places of the remark "By the way, last time you mentioned feeling M"
\* in the reply of the last respond call
LastMoodRemarks ==
  { i \in 1..Len(respRet.reply_text) : respRet.reply_text[i].kind = "last_mood" }

\* C12: the reply of respond to a message that is not a crisis holds the
\* remark "By the way, last time you mentioned feeling M" exactly when the
\* session of the user holds a message immediately before the current one
\* whose mood differs from the current mood, and M is the mood of that
\* immediately preceding message.
C12_RemarkNamesPrecedingMood ==
  (RespondReturned /\ respRet.mood # "crisis") =>
    LET h == Val(SessionOfLastRespond).history
        n == Len(h)
    IN  /\ (LastMoodRemarks # {}) <=> (n >= 2 /\ h[n - 1].mood # respRet.mood)
        /\ \A i \in LastMoodRemarks :
             n >= 2 /\ respRet.reply_text[i].arg = h[n - 1].mood

\* the places of the "Quick summary" in the reply of the last respond call
Summaries ==
  { i \in 1..Len(respRet.reply_text) : respRet.reply_text[i].kind = "summary" }

\* C13: the reply of respond (routes/respond.py) ends with the "Quick
\* summary" exactly when the stored chat history of the user, the message
\* of the call included, has at least MAX_HISTORY entries, and the summarised
\* history is the last MAX_HISTORY stored entries; in a conversation that
\* starts on an empty store the first four replies have no summary and every
\* later reply has one, whatever the mood.
C13_SummaryFromFifthEntry ==
  (respRet.fn = "respond" /\ respRet.err = "") =>
    LET stored == getChatHistory(user_files, respRet.user, None)
    IN  /\ (Summaries # {}) <=> (Len(stored) >= MAX_HISTORY)
        /\ Summaries \subseteq {Len(respRet.reply_text)}
        /\ respRet.history = LastN(stored, MAX_HISTORY)
        /\ Len(stored) = Len(chat_log) =>
             ((Summaries # {}) <=> (Len(chat_log) >= MAX_HISTORY))

\* on an empty store, the fifth reply of a conversation whose messages had
\* three different moods ends with the summary of the five stored entries
C13_Witness ==
  /\ respRet.fn = "respond"
  /\ respRet.err = ""
  /\ Len(chat_log) = MAX_HISTORY
  /\ Len(getChatHistory(user_files, respRet.user, None)) = MAX_HISTORY
  /\ Cardinality({ chat_log[i].mood : i \in 1..Len(chat_log) }) >= 3
  /\ respRet.mood = "angry"
  /\ Summaries # {}

\* on an empty store, the fourth reply of a conversation has no summary
C13_WitnessFourth ==
  /\ respRet.fn = "respond"
  /\ respRet.err = ""
  /\ Len(chat_log) = MAX_HISTORY - 1
  /\ Len(getChatHistory(user_files, respRet.user, None)) = MAX_HISTORY - 1
  /\ Summaries = {}

\* the moods of the messages of the conversation so far, in arrival order:
\* the temp chat log of respond.py holds every message, the session of
\* MentalHealthMCP the last MAX_HISTORY ones
MoodsOfConversation ==
  IF respRet.fn = "respond"
  THEN [i \in 1..Len(chat_log) |-> chat_log[i].mood]
  ELSE [i \in 1..Len(Val(SessionOfLastRespond).history) |->
          Val(SessionOfLastRespond).history[i].mood]

\* the follow-up question of the k-th reply in a conversation of one mood
FollowUpOfRound(mood, k) ==
  IF mood \notin DOMAIN follow_ups THEN None
  ELSE IF k % 3 = 1 THEN Some(follow_ups[mood][1])
  ELSE IF k % 3 = 2 THEN Some(follow_ups[mood][2])
  ELSE None

\* C14: in a conversation that starts with an empty session and whose
\* messages all have the same mood, the follow-up questions of the replies
\* are q0, q1, none, q0, q1, none, ... for a mood with the follow-up list
\* [q0, q1] (happy, sad, anxious, neutral) and none in every reply for a mood
\* without a list (angry, crisis).
C14_FollowUpsCycle ==
  ( /\ RespondReturned
    /\ Len(MoodsOfConversation) = requests
    /\ \A i \in 1..requests : MoodsOfConversation[i] = respRet.mood )
  => respRet.follow_up_question = FollowUpOfRound(respRet.mood, requests)

\* the fifth reply in a conversation of five sad messages asks the second
\* question of the sad list again
C14_Witness ==
  /\ RespondReturned
  /\ requests = 5
  /\ Len(MoodsOfConversation) = 5
  /\ \A i \in 1..5 : MoodsOfConversation[i] = "sad"
  /\ respRet.follow_up_question = Some(follow_ups.sad[2])

\* last_question of the session of user u in the sessions of handler fn
LastQuestionOf(respond_sessions, mcp_sessions, fn, u) ==
  LET session == IF fn = "respond" THEN respond_sessions[u] ELSE mcp_sessions[u]
  IN  IF IsNone(session) THEN None ELSE Val(session).last_question

\* the follow-up list of a mood in the follow_ups table
FollowUpList(mood) ==
  IF mood \in DOMAIN follow_ups THEN follow_ups[mood] ELSE << >>

\* C15: when the session holds the follow-up question of the previous reply
\* and the next message has a mood whose follow-up list does not contain it,
\* the reply to that message has no follow-up question and last_question
\* becomes None; a reply given while last_question is None to a message whose
\* mood has a list carries the first question of that list.
C15_MoodChangeResetsFollowUp ==
  [][ ( /\ requests' # requests
        /\ respRet'.fn \in {"respond", "mcp.respond"}
        /\ respRet'.err = "" )
      => LET before == LastQuestionOf(user_sessions, mcp_user_sessions,
                                      respRet'.fn, respRet'.user)
             after == LastQuestionOf(user_sessions', mcp_user_sessions',
                                     respRet'.fn, respRet'.user)
             list == FollowUpList(respRet'.mood)
         IN  /\ (~IsNone(before) /\ ~InList(Val(before), list))
                  => (IsNone(respRet'.follow_up_question) /\ IsNone(after))
             /\ (IsNone(before) /\ respRet'.mood # "crisis" /\ list # << >>)
                  => (respRet'.follow_up_question = Some(list[1])
                      /\ after = Some(list[1])) ]_vars

\* a sad message was asked the first sad question, the neutral (or happy)
\* message after it got no question, and the sad message after that was
\* asked the first sad question again
C15_Witness ==
  /\ RespondReturned
  /\ requests = 3
  /\ Len(Val(SessionOfLastRespond).history) = 3
  /\ Val(SessionOfLastRespond).history[1].mood = "sad"
  /\ Val(SessionOfLastRespond).history[2].mood \in {"neutral", "happy"}
  /\ respRet.mood = "sad"
  /\ respRet.follow_up_question = Some(follow_ups.sad[1])
  /\ Val(SessionOfLastRespond).last_question = Some(follow_ups.sad[1])

\* the history of the session of user u in a table of sessions
HistoryOf(sessions, u) ==
  IF IsNone(sessions[u]) THEN << >> ELSE Val(sessions[u]).history

\* the interactions of user u in the temp chat log, in arrival order
RECURSIVE InteractionsOf(_, _)
InteractionsOf(log, u) ==
  IF log = << >> THEN << >>
  ELSE LET rest == InteractionsOf(SubSeq(log, 1, Len(log) - 1), u)
           last == log[Len(log)]
       IN  IF last.user_id = u
           THEN Append(rest, [mood |-> last.mood, msg |-> last.msg])
           ELSE rest

\* C16: the session history of every user holds at most MAX_HISTORY entries
\* in both handlers; every respond call appends its interaction at the end
\* and keeps the order and the most recent MAX_HISTORY entries, so that the
\* history of respond.py is the last MAX_HISTORY interactions of the user in
\* arrival order.
C16_SessionKeepsLastFive ==
  /\ [](\A u \in Users :
          /\ Len(HistoryOf(user_sessions, u)) <= MAX_HISTORY
          /\ Len(HistoryOf(mcp_user_sessions, u)) <= MAX_HISTORY
          /\ HistoryOf(user_sessions, u)
               = LastN(InteractionsOf(chat_log, u), MAX_HISTORY))
  /\ [][ ( /\ requests' # requests
           /\ respRet'.fn \in {"respond", "mcp.respond"}
           /\ respRet'.err = "" )
         => LET sessions == IF respRet'.fn = "respond" THEN user_sessions
                            ELSE mcp_user_sessions
                sessions_after == IF respRet'.fn = "respond" THEN user_sessions'
                                  ELSE mcp_user_sessions'
                arrival == [mood |-> respRet'.mood, msg |-> respRet'.msg]
            IN  /\ HistoryOf(sessions_after, respRet'.user)
                     = LastN(Append(HistoryOf(sessions, respRet'.user), arrival),
                             MAX_HISTORY)
                /\ \A u \in Users \ {respRet'.user} :
                     HistoryOf(sessions_after, u) = HistoryOf(sessions, u) ]_vars

\* the sixth message of a conversation has evicted the first one, whose mood
\* was different from that of the second
C16_Witness ==
  /\ respRet.fn = "respond"
  /\ respRet.err = ""
  /\ Len(chat_log) = MAX_HISTORY + 1
  /\ chat_log[1].mood # chat_log[2].mood
  /\ Len(HistoryOf(user_sessions, respRet.user)) = MAX_HISTORY
  /\ HistoryOf(user_sessions, respRet.user)[1].mood = chat_log[2].mood
  /\ HistoryOf(user_sessions, respRet.user)[MAX_HISTORY].msg = respRet.msg

\* the crisis and emotion keyword tables of the detector of the last call
CrisisKeywordsOfLastCall ==
  IF moodRet.fn = "detectMoodOffline" THEN CRISIS_KEYWORDS ELSE MCP_CRISIS_KEYWORDS

EmotionKeywordsOfLastCall ==
  IF moodRet.fn = "detectMoodOffline" THEN EMOTION_KEYWORDS ELSE MCP_EMOTION_KEYWORDS

\* the mood by the fallback thresholds on the integer score
MoodOfScore(s) ==
  IF s <= -3 THEN "sad"
  ELSE IF s \in {-2, -1} THEN "anxious"
  ELSE IF s >= 3 THEN "happy"
  ELSE "neutral"

\* C17: for an empty or None message the mood detectors return neutral with
\* score 0.  For a non-empty message without crisis keyword they return the
\* first mood in the order sad, anxious, angry, happy of which the lowercased
\* message contains a keyword, whatever the score; when no keyword matches,
\* the mood is given by the score s: sad for s <= -3, anxious for s in
\* {-2, -1}, happy for s >= 3 and neutral for s in 0..2.  The score is that of
\* the sentiment analyser, or of _simple_sentiment_score without it.
C17_MoodByKeywordThenScore ==
  moodRet.fn # "none" =>
    IF moodRet.msg = 0 \/ MsgArg(moodRet.msg) = Some(<< >>)
    THEN moodRet.mood = "neutral" /\ moodRet.score = Some(0)
    ELSE LET txt == lower(Corpus[moodRet.msg])
             ek == EmotionKeywordsOfLastCall
             s == IF HAS_VADER THEN moodRet.vader ELSE simple_sentiment_score(txt)
         IN  ~includes_any(txt, CrisisKeywordsOfLastCall) =>
               /\ moodRet.score = Some(s)
               /\ moodRet.mood =
                    (IF includes_any(txt, ek[1].keys) THEN "sad"
                     ELSE IF includes_any(txt, ek[2].keys) THEN "anxious"
                     ELSE IF includes_any(txt, ek[3].keys) THEN "angry"
                     ELSE IF includes_any(txt, ek[4].keys) THEN "happy"
                     ELSE MoodOfScore(s))
               /\ << ek[1].mood, ek[2].mood, ek[3].mood, ek[4].mood >>
                    = << "sad", "anxious", "angry", "happy" >>

\* "happy but worried" with the most positive score: the anxious keyword
\* comes before the happy one in the order of the table and the score is
\* not looked at
C17_Witness ==
  /\ moodRet.fn # "none"
  /\ moodRet.msg = 17
  /\ HAS_VADER
  /\ moodRet.vader = 5
  /\ moodRet.mood = "anxious"
  /\ moodRet.score = Some(5)

\* "bad awful day" without the sentiment analyser: no keyword, two negative
\* words, score -4, sad by the threshold
C17_WitnessThreshold ==
  /\ moodRet.fn # "none"
  /\ moodRet.msg = 13
  /\ ~HAS_VADER
  /\ moodRet.mood = "sad"
  /\ moodRet.score = Some(-4)

\* the number of words of the last call whose lowercased form is in lst
WordsIn(lst) ==
  Cardinality({ i \in 1..Len(sentRet.words) : InList(lower(sentRet.words[i]), lst) })

\* C18: _simple_sentiment_score (moodDetection.py and MentalHealthMCP) returns
\* an integer in [-5, 5]: min(5, 2 * P) when the count P of positive words
\* exceeds the count N of negative words, max(-5, -2 * N) when N exceeds P and
\* 0 when P = N; the result is positive exactly when P > N and negative
\* exactly when N > P.
C18_SimpleScoreFormula ==
  sentRet.fn \in {"_simple_sentiment_score", "MentalHealthMCP._simple_sentiment_score"} =>
    LET P == WordsIn(positive_words)
        N == WordsIn(negative_words)
    IN  /\ sentRet.score \in (-5)..5
        /\ P > N => sentRet.score = (IF 2 * P < 5 THEN 2 * P ELSE 5)
        /\ N > P => sentRet.score = (IF -2 * N > -5 THEN -2 * N ELSE -5)
        /\ P = N => sentRet.score = 0
        /\ (sentRet.score > 0) <=> (P > N)
        /\ (sentRet.score < 0) <=> (N > P)

\* three positive words, one of them capitalised, and one negative word:
\* 2 * 3 is cut to 5
C18_Witness ==
  /\ sentRet.fn = "_simple_sentiment_score"
  /\ WordsIn(positive_words) = 3
  /\ WordsIn(negative_words) = 1
  /\ \E i \in 1..Len(sentRet.words) : sentRet.words[i] # lower(sentRet.words[i])
  /\ sentRet.score = 5

\* two positive and two negative words: the score is 0
C18_WitnessTie ==
  /\ sentRet.fn = "MentalHealthMCP._simple_sentiment_score"
  /\ WordsIn(positive_words) = 2
  /\ WordsIn(negative_words) = 2
  /\ sentRet.score = 0

\* C19: the context modifier returned by analyze_sentiment_context lies
\* between -1.0 and 1.0 (in units of 1/10000) for every word list and every
\* target index.
C19_ModifierInUnitRange ==
  sentRet.fn = "analyze_sentiment_context" =>
    (sentRet.modifier >= -10000 /\ sentRet.modifier <= 10000)

\* the up to three words before the word at the 0-based index i
WindowBefore(words, i) ==
  SubSeq(words, (IF i - 3 > 0 THEN i - 3 ELSE 0) + 1, i)

\* the listed factor (tenths) of every occurrence of an entry of
\* INTENSITY_MODIFIERS in the window, an entry of several words occurring
\* where its words follow each other
ListedFactors(window) ==
  { << p, k >> \in (1..Len(window)) \X (1..Len(INTENSITY_MODIFIERS)) :
      LET key == split(INTENSITY_MODIFIERS[k].word)
      IN  /\ p + Len(key) - 1 <= Len(window)
          /\ \A j \in 1..Len(key) : window[p + j - 1] = key[j] }

RECURSIVE TimesFactors(_, _)
TimesFactors(amount, occurrences) ==
  IF occurrences = {} THEN amount
  ELSE LET o == CHOOSE o \in occurrences : TRUE
       IN  TimesFactors((amount * INTENSITY_MODIFIERS[o[2]].factor) \div 10,
                        occurrences \ {o})

\* C20: in calculate_mood_scores the amount a mood keyword adds to the score
\* of its mood is negative exactly when a negation word is among the up to
\* three words immediately before the keyword and positive otherwise, and its
\* magnitude is the category weight (times 0.8 under negation) multiplied by
\* the listed factor of every intensity adverb of INTENSITY_MODIFIERS found in
\* that window.
C20_KeywordSignAndIntensity ==
  sentRet.fn = "calculate_mood_scores" =>
    \A h \in sentRet.keyword_scores :
      LET window == WindowBefore(sentRet.words, h.index)
          negated == \E i \in 1..Len(window) : InList(window[i], NEGATION_WORDS)
          magnitude == IF h.final_score < 0 THEN -h.final_score ELSE h.final_score
      IN  /\ (h.final_score < 0) <=> negated
          /\ (h.final_score > 0) <=> ~negated
          /\ magnitude = TimesFactors((IF negated THEN 8000 ELSE 10000)
                                        * category_weight(h.category),
                                      ListedFactors(window))

\* the last tool call was a chat handled by enhanced_llm_analyze that
\* returned a result
ChatReturned ==
  /\ llmRet.op \in {"chat_with_ai_therapist", "therapy_chat"}
  /\ llmRet.err = "none"

\* C21: in enhanced_llm_analyze the crisis assessment comes first.  A result
\* with the crisis flag has the intervention recorded as the last row of
\* crisis_interventions of the user and the crisis response, and was produced
\* without a call of the LLM and without the fallback; a result of the LLM or
\* of the fallback is given only for a message whose assessment was not a
\* crisis: no keyword of weight >= 0.9 and a final score below 0.8; every
\* result is of one of the three kinds.
C21_CrisisBeforeLLM ==
  ChatReturned =>
    LET txt == lower(Corpus[llmRet.msg])
        rows == crisis_interventions[llmRet.user]
    IN  /\ llmRet.crisis_detected =>
             /\ ImmediateCrisis(txt) \/ Val(llmRet.crisis_score) >= 800
             /\ llmRet.intervention_triggered
             /\ llmRet.response = Some(generate_crisis_response)
             /\ ~llmRet.llm_called
             /\ ~llmRet.fallback
             /\ rows # << >>
             /\ rows[Len(rows)] = InterventionRow(Val(llmRet.crisis_score))
        /\ (llmRet.llm_called \/ llmRet.fallback) =>
             /\ ~llmRet.crisis_detected
             /\ ~llmRet.intervention_triggered
             /\ ~ImmediateCrisis(txt)
             /\ CombineScores(CrisisScore(txt), Val(llmRet.risk_score)) < 800
        /\ llmRet.crisis_detected \/ llmRet.llm_called \/ llmRet.fallback
        /\ ImmediateCrisis(txt) => llmRet.crisis_detected

\* with the LLM installed, a message without a keyword of weight >= 0.9 was
\* answered by the crisis response because its final score reached 0.8
C21_Witness ==
  /\ ChatReturned
  /\ HAS_OLLAMA
  /\ llmRet.crisis_detected
  /\ ~ImmediateCrisis(lower(Corpus[llmRet.msg]))
  /\ ~llmRet.llm_called

\* the LLM answered a message whose crisis assessment was false
C21_WitnessLLM ==
  /\ ChatReturned
  /\ llmRet.llm_called
  /\ ~llmRet.fallback
  /\ ~llmRet.crisis_detected

\* C22: crisis_interventions starts empty; a call of a chat tool or of
\* crisis_check that returns a crisis result appends exactly one row for its
\* user, with intervention_type 'emergency' and the final score of the
\* assessment as risk_score, and changes no other user's rows; every other
\* call leaves the table as it was.  Hence the rows of a user are as many as
\* the user's calls that returned a crisis result.
C22_OneInterventionPerCrisis ==
  /\ \A u \in Users : crisis_interventions[u] = << >>
  /\ [][ calls' # calls =>
           IF llmRet'.err = "none" /\ llmRet'.crisis_detected
           THEN crisis_interventions' =
                  [crisis_interventions EXCEPT ![llmRet'.user] =
                     Append(@, [risk_score |-> Val(llmRet'.crisis_score),
                                intervention_type |-> "emergency",
                                bot_response |-> generate_crisis_response])]
           ELSE crisis_interventions' = crisis_interventions ]_vars

\* a crisis result of crisis_check and then one of therapy_chat for the same
\* user: two rows, the last with the score of the chat's assessment
C22_Witness ==
  /\ llmRet.op = "therapy_chat"
  /\ llmRet.err = "none"
  /\ llmRet.crisis_detected
  /\ Len(crisis_interventions[llmRet.user]) = 2
  /\ crisis_interventions[llmRet.user][2].risk_score = Val(llmRet.crisis_score)
  /\ interactions[llmRet.user] # << >>

\* the stored history of the user of the last insights call, its moods, and
\* whether its three most recent moods are all sad, anxious or crisis
InsightsHistory ==
  load_user_data(user_files, insRet.user).chat_history

ThreeRecentConcerning ==
  LET moods == MoodsOf(InsightsHistory)
  IN  /\ Len(moods) >= 3
      /\ \A i \in (Len(moods) - 2)..Len(moods) : moods[i] \in {"sad", "anxious", "crisis"}

NeedsAttentionRule ==
  /\ (insRet.needs_attention = Some(TRUE)) <=> (insRet.mood_trend = "concerning")
  /\ (insRet.mood_trend = "concerning") <=> ThreeRecentConcerning
  /\ Len(InsightsHistory) < 3 =>
       /\ insRet.mood_trend = "stable"
       /\ insRet.needs_attention = Some(FALSE)

\* C23: in the conversation insights and in the user statistics of a stored
\* history, needs_attention is true exactly when mood_trend is 'concerning',
\* which is exactly when the history has at least three entries and its three
\* most recent moods are all in {sad, anxious, crisis}; with fewer than three
\* entries mood_trend is 'stable' and needs_attention is false.
C23_NeedsAttentionIffConcerning ==
  insRet.fn # "none" => NeedsAttentionRule

\* the part of C23 the code satisfies: getConversationInsights on a history
\* that is not empty
C23_InsightsOfNonEmptyHistory ==
  (insRet.fn = "getConversationInsights" /\ InsightsHistory # << >>) => NeedsAttentionRule

\* get_user_statistics never reports needs_attention or a mood_trend
C23_StatisticsNeverReport ==
  insRet.fn = "get_user_statistics" =>
    /\ insRet.status \in {"error", "no_data"}
    /\ insRet.needs_attention = None
    /\ (insRet.status = "error") <=> (InsightsHistory # << >>)

C23_StatisticsOfThreeCrisis ==
  /\ insRet.fn = "get_user_statistics"
  /\ MoodsOf(InsightsHistory) = << "crisis", "crisis", "crisis" >>
  /\ insRet.status = "error"

C23_InsightsOfTwoCrisis ==
  /\ insRet.fn = "getConversationInsights"
  /\ MoodsOf(InsightsHistory) = << "crisis", "crisis" >>
  /\ insRet.mood_trend = "stable"
  /\ insRet.needs_attention = Some(FALSE)

C23_InsightsConcerning ==
  /\ insRet.fn = "getConversationInsights"
  /\ Len(InsightsHistory) = 4
  /\ MoodsOf(InsightsHistory)[1] = "happy"
  /\ insRet.needs_attention = Some(TRUE)

\* the calls that have returned successfully for user u
CompletedChats(u) ==
  { c \in 1..Len(chats) : chats[c].user = u /\ chats[c].success }

\* call c returns in this step: it arrives and never suspends, or it resumes
ChatReturns(c) ==
  /\ c \in 1..Len(chats')
  /\ chats'[c].pc = "done"
  /\ c \in 1..Len(chats) => chats[c].pc = "suspended"

\* the user context call c has when it returns is the one of the state in
\* which it arrived: read in this step when it arrives now, kept since the
\* suspension when it resumes
ContextOfArrival(c) ==
  /\ IF c \in 1..Len(chats)
     THEN chats'[c].user_context = chats[c].user_context
     ELSE chats'[c].user_context =
            get_user_context(interactions[chats'[c].user], chats'[c].user \in users)
  /\ (chats'[c].op = "therapy_chat" /\ chats'[c].success) =>
       chats'[c].remembers_you = Some(~chats'[c].user_context.is_new_user)

\* C24: in every interleaving of concurrent chat calls of one user, which
\* suspend while ollama.generate runs in the executor, a call that returns
\* successfully inserts exactly one row into interactions and a call that
\* fails or is still suspended inserts none, so the table holds as many rows
\* of the user as calls have returned successfully; the user context a call
\* uses is the one read before its suspension.
C24_OneRowPerCompletedChat ==
  /\ [](\A u \in Users : Len(interactions[u]) = Cardinality(CompletedChats(u)))
  /\ [][ /\ \A c \in 1..MaxChats :
               ChatReturns(c) =>
                 /\ ContextOfArrival(c)
                 /\ LET call == chats'[c]
                    IN  IF call.success
                        THEN interactions' =
                               [interactions EXCEPT ![call.user] =
                                  Append(@, InteractionRow(call.msg, call.an.mood,
                                                           call.an.risk_score))]
                        ELSE interactions' = interactions
         /\ (\A c \in 1..MaxChats : ~ChatReturns(c)) => interactions' = interactions
       ]_vars

\* two calls of therapy_chat overlap: the first suspends as a new user, the
\* second (crisis) returns and inserts its row, then the first resumes with
\* the LLM's JSON, inserts the second row and still answers as to a new user
C24_Witness ==
  /\ Len(chats) = 2
  /\ chats[1].op = "therapy_chat" /\ chats[1].msg = 2 /\ chats[1].success
  /\ chats[2].msg = 1 /\ chats[2].success /\ chats[2].an.crisis_detected
  /\ chats[1].an.llm_called
  /\ chats[1].remembers_you = Some(FALSE)
  /\ Len(interactions["u1"]) = 2
  /\ interactions["u1"][1].message = 1
  /\ interactions["u1"][2].message = 2

\* both calls suspend before either inserts, and both return successfully
C24_WitnessBothSuspended ==
  /\ Len(chats) = 2
  /\ \A c \in 1..2 : chats[c].success /\ chats[c].an.llm_called /\ ~chats[c].an.fallback
  /\ Len(interactions["u1"]) = 2

\* a call that resumes into the fallback after another call has inserted a
\* row fails (predict_risk raises on the stored row) and inserts nothing
C24_WitnessResumedFailure ==
  /\ Len(chats) = 2
  /\ chats[1].pc = "done" /\ ~chats[1].success /\ ~IsNone(chats[1].risk_score)
  /\ chats[2].success
  /\ Len(interactions["u1"]) = 1

=============================================================================
